---- MODULE Spec2Model ----
(***************************************************************************)
(* A model of the XMM-Newton OM diffuse-emission pipeline (omdataprep):    *)
(* the reduction driver RunOmichain.run, the mosaic builder                 *)
(* Build_Mosaic.create_new_mosaic and the band combiner                     *)
(* UVImageCombiner.get_matching_pairs.  File names are strings and the      *)
(* name handling of the code (glob, split, sorted) is computed on them.     *)
(***************************************************************************)
EXTENDS Integers, Sequences, FiniteSets, TLC

VARIABLES
    \* ---- the process
    cwd,        \* os.getcwd(): 0 the directory the process was started in,
                \* o > 0 the `work` directory of observation o
    SAS_ODF,    \* os.environ['SAS_ODF']: 0 as inherited, o > 0 the
                \* descriptor file in the `work` directory of observation o
    SAS_CCF,    \* os.environ['SAS_CCF']: 0 as inherited, o > 0 the ccf.cif
                \* in the `work` directory of observation o
    \* ---- the batch root on disk
    work,       \* work[o]: observation o has a `work` directory
    odf,        \* odf[o]: observation o has an `odf` directory
    tar,        \* tar[o]: the archive <o>.tar.gz lies in the batch root
    sas,        \* sas[o]: the `work` directory of o holds a .SAS file
    logfile,    \* process_omichain_log.txt exists in the batch root
    \* ---- the driver RunOmichain (running_omichain.py)
    remove_odf, remove_tar,
    processed_observations, error_observations, already_processed,
    listing,    \* the result of os.listdir(self.directory)
    idx,        \* position of the for loop in listing
    cur,        \* folder_name: the observation being processed
    odf_dir,    \* the input directory chosen: "odf" or "root"
    pc,         \* the statement of run that is next
    current_dir,        \* the local current_dir of run_commands_in_directory
    files_to_correct,   \* files the stray-light loop has still to visit
    runNo,      \* the number of the current run over the batch root
    invoked,    \* invoked[o]: the steps run for o in this run, in order
    modified,   \* modified[o]: this run wrote inside the directory of o
    outcome,    \* outcome[o]: how the processing of o went: "none" (never
                \* begun), "setup", "nosas", "reduction", "post" or "ok"
    ranIn,      \* ranIn[o]: the run that began to process o, 0 for none
    reached,    \* reached[o]: "no" while the loop of this run has not come to
                \* o, then "work" or "nowork": whether o had `work` by then
    \* ---- the mosaic builder (create_new_mosaic.py)
    mfiles,     \* names of the files in Build_Mosaic.directory
    mhdr,       \* name -> <<>> (no FILTER keyword, or unreadable) or <<value>>
    mpc,        \* "idle" | "ready" | "stacked" | "hybrid_find" | "hybrid_run" | "done"
    original_dir,      \* the local original_dir of create_new_mosaic
    images_by_filter,  \* the groups of stacked-frame mode still to be mosaicked
    target,     \* index of target_filter in the priority list of hybrid mode
    image_files,       \* the local image_files of hybrid mode
    mcalls,     \* the ommosaic invocations made, in order
    msearches,  \* calls of find_images_for_hybrid_mosaic made
    mcwd0,      \* the working directory when create_new_mosaic was called
    \* ---- the band combiner (mosaic_combiner.py)
    cdir,       \* names of the files in UVImageCombiner.directory
    cpc,        \* "idle" | "ready" | "done" | "returned" | "raised"
    cpairs,     \* the list returned by get_matching_pairs
    cidx,       \* position of UVImageCombiner.run in the pairs
    cwritten,   \* names of the files UVImageCombiner.run has written
    \* ---- UVImageCombiner.combine_two_images (mosaic_combiner.py)
    file1,      \* the first FITS file: [data |-> pixels, header |-> id]
    file2,      \* the second FITS file
    ipc,        \* "idle" | "ready" | "done"
    combined,   \* the returned (combined_data, header), <<>> before the return
    \* ---- apply_segmentation_mask (SExtractor.py)
    kdir,       \* the target directory: file name -> image data of the file
    kdir0,      \* the directory as it was when the function was called
    kmaps,      \* the segmentation maps of the glob still to be visited
    kpc,        \* "idle" | "ready" | "loop" | "done"
    kout,       \* the masked files written: [map, image, out], in order
    kseen,      \* the maps visited by the loop: [map, outcome], in order
    \* ---- Jupiter_Corrector (jupiter_corrector.py)
    jmodeldir,  \* Modelos_Jupiter: file name -> shape of the file's data
    jfiltro,    \* the requested filter
    jshape,     \* the shape of the image to correct
    jmodels,    \* self.models: <<filter, shape>> -> the file the data came from
    jpc,        \* "idle" | "init" | "loaded" | "done" | "raised"
    joutput,    \* the file at output_path: "absent" | "old" | "corrected"
    jused,      \* the model file the image was divided by, "none" before
    \* ---- Download.baixar_observacoes (get_data.py)
    gcat,       \* the OBSERVATION_ID column of the selected rows
    gdest,      \* the destination directory: entries [name, isdir]
    gskip,      \* the local obsids_a_pular
    gidx,       \* the position of the loop in gcat
    gpc,        \* "idle" | "ready" | "loop" | "done" | "extract" | "extracted" | "raised"
    gcalls,     \* the invocations of the client: [obsid, ok, present]
    glogfile,   \* Download.log_file, the name of the log file
    godf,       \* the directories extract_and_organize made odf/ in
    gremove,    \* Extract.remove_tar
    gtodo,      \* the archives extract_and_organize has still to visit
    \* ---- OMAttBatchProcessor (omatt.py)
    adir,       \* names of the files in work_directory
    accf,       \* os.environ['SAS_CCF']: "unset" | "other" | "work"
    atargets,   \* target_images still to be analysed, in glob's order
    asets,      \* self.processing_sets
    aidx,       \* the position of the loop of run in processing_sets
    acalls,     \* the omatt invocations: [set, ccf, result]
    apc,        \* "idle" | "ready" | "find" | "loop" | "returned" | "raised"
    \* ---- running_Sextractor (SExtractor.py)
    sdirname,   \* diretorio_alvo, the path of the target directory
    sdir,       \* names of the files in the target directory
    sdir0,      \* the directory as it was when the function was called
    sconfig,    \* whether config_file is a file
    spat,       \* the position of the outer loop in padroes
    sfiles,     \* the files of the current glob still to be visited
    scalls,     \* the invocations of source-extractor: [file, out, result]
    spc,        \* "idle" | "ready" | "glob" | "loop" | "done" | "raised"
    \* ---- sincronizar_wcs_de_fits (check_fits.py)
    worigem,    \* whether glob finds a file for padrao_origem
    wdestino,   \* whether glob finds a file for padrao_destino
    wfilter,    \* FILTER of the header of the reference: <<>> or <<value>>
    wheader,    \* the WCS keywords of the header of the reference
    wtarget,    \* the header of the target file, as it is on disk
    wtarget0,   \* the header of the target file before the first call
    wlog,       \* one entry a call: "nofile" | "noaction" | "flushed" | "same"
    wpc,        \* "idle" | "ready"
    \* ---- the names of the products, stage after stage
    nname,      \* the name of the file the next stage is given
    nlog,       \* the stages applied: [stage, input, output], in order
    npc         \* "idle" | "ready"

fsvars   == <<work, odf, tar, sas, logfile>>
cfgvars  == <<remove_odf, remove_tar>>
listvars == <<processed_observations, error_observations, already_processed>>
envvars  == <<SAS_ODF, SAS_CCF>>
loopvars == <<listing, idx, cur, odf_dir>>
histvars == <<invoked, modified, outcome, ranIn, reached>>

dvars == <<fsvars, cfgvars, listvars, envvars, loopvars, histvars, pc,
           current_dir, files_to_correct, runNo>>

mvars == <<mfiles, mhdr, mpc, original_dir, images_by_filter, target,
           image_files, mcalls, msearches, mcwd0>>

\* The variables of the mosaic builder other than the directory it saved.
mrest == <<mfiles, mhdr, mpc, images_by_filter, target, image_files, mcalls,
           msearches, mcwd0>>

cvars == <<cdir, cpc, cpairs, cidx, cwritten>>

ivars == <<file1, file2, ipc, combined>>

\* The variables of the components other than driver, mosaic builder and
\* pairing.
kvars == <<kdir, kdir0, kmaps, kpc, kout, kseen>>

jvars == <<jmodeldir, jfiltro, jshape, jmodels, jpc, joutput, jused>>

gvars == <<gcat, gdest, gskip, gidx, gpc, gcalls, glogfile, godf, gremove, gtodo>>

avars == <<adir, accf, atargets, asets, aidx, acalls, apc>>

svars == <<sdirname, sdir, sdir0, sconfig, spat, sfiles, scalls, spc>>

wvars == <<worigem, wdestino, wfilter, wheader, wtarget, wtarget0, wlog, wpc>>

nvars == <<nname, nlog, npc>>

xvars == <<ivars, kvars, jvars, gvars, avars, svars, wvars, nvars>>

oldvars == <<cwd, dvars, mvars, cvars>>

vars == <<cwd, dvars, mvars, cvars, xvars>>

(***************************************************************************)
(* Strings, as Python computes on them.                                     *)
(***************************************************************************)

\* s[i-1] of Python: the i-th character, as a one-character string.
Char(s, i) == SubSeq(s, i, i)

\* s[i-1:].startswith(t)
StartsAt(s, i, t) ==
    /\ i + Len(t) - 1 <= Len(s)
    /\ SubSeq(s, i, i + Len(t) - 1) = t

\* s.find(t) + 1: the first position where t occurs in s, 0 when it does not.
FindFirst(s, t) ==
    IF \E i \in 1..Len(s) : StartsAt(s, i, t)
    THEN CHOOSE i \in 1..Len(s) :
            StartsAt(s, i, t) /\ \A j \in 1..(i - 1) : ~StartsAt(s, j, t)
    ELSE 0

\* t in s
Contains(s, t) == FindFirst(s, t) > 0

\* s.endswith(t)
EndsWith(s, t) ==
    /\ Len(t) <= Len(s)
    /\ SubSeq(s, Len(s) - Len(t) + 1, Len(s)) = t

\* s.split(sep)[0]: the text before the first sep, the whole of s without one.
SplitHead(s, sep) ==
    IF FindFirst(s, sep) = 0 THEN s ELSE SubSeq(s, 1, FindFirst(s, sep) - 1)

\* s.replace(t, ''): every occurrence of t is taken out, from the left.
RECURSIVE RemoveAll(_, _)
RemoveAll(s, t) ==
    IF FindFirst(s, t) = 0 THEN s
    ELSE SubSeq(s, 1, FindFirst(s, t) - 1)
            \o RemoveAll(SubSeq(s, FindFirst(s, t) + Len(t), Len(s)), t)

\* s.rfind(c) + 1: the last position of the character c in s, 0 without one.
LastIndex(s, c) ==
    LET hits == {i \in 1..Len(s) : Char(s, i) = c}
    IN  IF hits = {} THEN 0 ELSE CHOOSE i \in hits : \A j \in hits : j <= i

\* Where os.path.splitext splits: at the last '.' of s when it stands in the
\* last component of the path and a character other than '.' stands between
\* the start of that component and it; 0 otherwise.
ExtDot(s) ==
    IF /\ LastIndex(s, ".") > LastIndex(s, "/")
       /\ \E j \in (LastIndex(s, "/") + 1)..(LastIndex(s, ".") - 1) : Char(s, j) /= "."
    THEN LastIndex(s, ".")
    ELSE 0

\* os.path.splitext(s): <<root, ext>>
SplitExt(s) ==
    IF ExtDot(s) = 0 THEN <<s, "">>
    ELSE <<SubSeq(s, 1, ExtDot(s) - 1), SubSeq(s, ExtDot(s), Len(s))>>

\* str(n) for n >= 0
RECURSIVE IntToStr(_)
IntToStr(n) ==
    IF n < 10 THEN SubSeq("0123456789", n + 1, n + 1)
    ELSE IntToStr(n \div 10) \o SubSeq("0123456789", (n % 10) + 1, (n % 10) + 1)

\* s.zfill(width), for s without a sign
RECURSIVE ZFill(_, _)
ZFill(s, width) == IF Len(s) >= width THEN s ELSE ZFill("0" \o s, width)

\* fnmatch of the patterns the code uses: literal characters and '*'.
RECURSIVE GlobFrom(_, _, _, _)
GlobFrom(pat, i, name, j) ==
    IF i > Len(pat) THEN j > Len(name)
    ELSE IF Char(pat, i) = "*"
         THEN \E k \in j..(Len(name) + 1) : GlobFrom(pat, i + 1, name, k)
         ELSE /\ j <= Len(name)
              /\ Char(name, j) = Char(pat, i)
              /\ GlobFrom(pat, i + 1, name, j + 1)

\* glob.glob(os.path.join(directory, pat)), on the names of the directory: a
\* name starting with a dot is matched only by a pattern that starts with one.
FnMatch(name, pat) ==
    /\ GlobFrom(pat, 1, name, 1)
    /\ (Len(name) > 0 /\ Char(name, 1) = ".") => (Len(pat) > 0 /\ Char(pat, 1) = ".")

Glob(dir, pat) == {f \in dir : FnMatch(f, pat)}

\* The code points of the characters that occur in file names, in order.
AsciiOrder == " .0123456789ABCDEFGHIJKLMNOPQRSTUVWXYZ_abcdefghijklmnopqrstuvwxyz"

Ord(c) == FindFirst(AsciiOrder, c)

\* a < b of Python strings.
RECURSIVE StrLessFrom(_, _, _)
StrLessFrom(a, b, i) ==
    IF i > Len(a) THEN i <= Len(b)
    ELSE IF i > Len(b) THEN FALSE
    ELSE IF Char(a, i) = Char(b, i) THEN StrLessFrom(a, b, i + 1)
    ELSE Ord(Char(a, i)) < Ord(Char(b, i))

StrLess(a, b) == StrLessFrom(a, b, 1)

\* sorted(S) for a set of strings.
RECURSIVE SortedStrings(_)
SortedStrings(S) ==
    IF S = {} THEN <<>>
    ELSE LET m == CHOOSE x \in S : \A y \in S \ {x} : StrLess(x, y)
         IN  <<m>> \o SortedStrings(S \ {m})

(***************************************************************************)
(* UVImageCombiner.get_matching_pairs (mosaic_combiner.py).                 *)
(***************************************************************************)

\* The largest directory the combiner is run on.
MaxCombDir == 4

\* The file names a combiner directory is drawn from.
CombinerNames ==
    { "P1_UVW1_jupiter_filtred_MOSAIC.FIT",
      "P2_UVW1_jupiter_filtred_MOSAIC.FIT",
      "P1RSIMAGM0.FIT",
      "P2RSIMAGM0.FIT",
      "P1OMS0RSIMAGM0.FIT",
      "P1OMS1RSIMAGM0.FIT",
      "P2OMS0RSIMAGM0.FIT",
      "P1_combined_UVM2_UVW1.fits" }

\* glob(os.path.join(self.directory, 'P*_UVW1_jupiter_filtred_MOSAIC.FIT'))
MosaicSetFiles(dir) == Glob(dir, "P*_UVW1_jupiter_filtred_MOSAIC.FIT")

\* glob(os.path.join(self.directory, 'P*RSIMAGM*.FIT'))
HybridSetFiles(dir) == Glob(dir, "P*RSIMAGM*.FIT")

\* os.path.basename(f).split('_')[0]
MosaicKey(f) == SplitHead(f, "_")

\* The key of a hybrid-set file taken as the mosaic key is: before the first '_'.
HybridKeyUnderscore(f) == SplitHead(f, "_")

\* os.path.basename(f).split('OMS')[0]
HybridKey(f) == SplitHead(f, "OMS")

\* uvm2_dict = {basename(f).split('_')[0]: f for f in uvm2_files}: a later
\* file of the same key replaces an earlier one, and glob's order is the file
\* system's, so the dictionary is any choice of one file per key.
Uvm2Dicts(files) ==
    LET keys == {MosaicKey(f) : f \in files}
    IN  {d \in [keys -> files] : \A k \in keys : MosaicKey(d[k]) = k}

\* A dictionary that holds any hybrid-set file under a key.
Uvw1DictsAnyFile(files) ==
    LET keys == {HybridKey(f) : f \in files}
    IN  [keys -> files]

\* uvw1_dict = {basename(f).split('OMS')[0]: f for f in uvw1_files}
Uvw1Dicts(files) ==
    LET keys == {HybridKey(f) : f \in files}
    IN  {d \in [keys -> files] : \A k \in keys : HybridKey(d[k]) = k}

\* set(uvm2_dict.keys()).intersection(uvw1_dict.keys())
CommonKeys(dir) ==
    {MosaicKey(f) : f \in MosaicSetFiles(dir)} \cap
    {HybridKey(f) : f \in HybridSetFiles(dir)}

\* The pairs, in the order of sorted(common_keys), for given dictionaries.
PairsOf(dir, uvm2_dict, uvw1_dict) ==
    LET keys == SortedStrings(CommonKeys(dir))
    IN  [i \in 1..Len(keys) |-> <<uvm2_dict[keys[i]], uvw1_dict[keys[i]]>>]

\* UVImageCombiner(directory).get_matching_pairs()
GetMatchingPairs ==
    /\ cpc = "ready"
    /\ \E uvm2_dict \in Uvm2Dicts(MosaicSetFiles(cdir)) :
       \E uvw1_dict \in Uvw1Dicts(HybridSetFiles(cdir)) :
          cpairs' = PairsOf(cdir, uvm2_dict, uvw1_dict)
    /\ cpc' = "done"
    /\ cidx' = 1
    /\ UNCHANGED <<cdir, cwritten>>

\* output_filename = f"{prefix}_combined_UVM2_UVW1.fits", with
\* prefix = os.path.basename(file1).split('_')[0]
OutputFilename(f) == SplitHead(f, "_") \o "_combined_UVM2_UVW1.fits"

\* run: if not pairs: logging.error(...); return
CombinerNoPairs ==
    /\ cpc = "done"
    /\ cpairs = <<>>
    /\ cpc' = "returned"
    /\ UNCHANGED <<cdir, cpairs, cidx, cwritten>>

\* run: one pair of the loop; combine_two_images and save_combined_image
\* write the sum, or an exception of theirs leaves run.
CombinerNextPair ==
    /\ cpc = "done"
    /\ cidx <= Len(cpairs)
    /\ \E ok \in BOOLEAN :
        IF ok
        THEN /\ cwritten' = cwritten \cup {OutputFilename(cpairs[cidx][1])}
             /\ cidx' = cidx + 1
             /\ UNCHANGED cpc
        ELSE /\ cpc' = "raised"
             /\ UNCHANGED <<cidx, cwritten>>
    /\ UNCHANGED <<cdir, cpairs>>

\* run: the loop over the pairs is exhausted.
CombinerReturn ==
    /\ cpc = "done"
    /\ cpairs /= <<>>
    /\ cidx > Len(cpairs)
    /\ cpc' = "returned"
    /\ UNCHANGED <<cdir, cpairs, cidx, cwritten>>

(***************************************************************************)
(* Build_Mosaic (create_new_mosaic.py).                                     *)
(***************************************************************************)

\* The largest directory the mosaic builder is run on.
MaxMosaicDir == 3

\* The observation whose `work` directory Build_Mosaic is constructed on.
MosaicObs == 1

\* The file names a `work` directory is drawn from: two corrected stacked
\* frames, two corrected mosaic components and two companion frames.
MosaicNames ==
    { "P01OMS001FIMAG_0000_jpiter_filtred_rotated_WCS.FIT",
      "P01OMS002FIMAG_0000_jpiter_filtred_rotated_WCS.FIT",
      "P01OMS003IMAGE_1000_jpiter_filtred_rotated_WCS.FIT",
      "P01OMS004IMAGE_1000_jpiter_filtred_rotated_WCS.FIT",
      "P01OMS003SIMAGE1000.FIT",
      "P01OMS005SIMAGE1000.FIT" }

\* What a file's headers hold for FILTER: no keyword (or a file astropy cannot
\* read), or the keyword with a value.
HeaderValues == { <<>>, <<"UVW1">>, <<" uvm2 ">> }

LowerCase == "abcdefghijklmnopqrstuvwxyz"
UpperCase == "ABCDEFGHIJKLMNOPQRSTUVWXYZ"

\* str.upper(), a character at a time.
RECURSIVE UpperFrom(_, _)
UpperFrom(s, i) ==
    IF i > Len(s) THEN ""
    ELSE LET c == Char(s, i)
             k == FindFirst(LowerCase, c)
         IN  (IF k > 0 THEN Char(UpperCase, k) ELSE c) \o UpperFrom(s, i + 1)

Upper(s) == UpperFrom(s, 1)

\* str.strip(): without the blanks at both ends.
Strip(s) ==
    LET inked == {i \in 1..Len(s) : Char(s, i) /= " "}
    IN  IF inked = {} THEN ""
        ELSE SubSeq(s, CHOOSE i \in inked : \A j \in inked : i <= j,
                       CHOOSE i \in inked : \A j \in inked : j <= i)

IsDigit(c) == Len(c) = 1 /\ Contains("0123456789", c)

\* The end of the longest run of digits of s that starts at position i
\* (i - 1 when there is no digit at i): the greedy \d+ of a regular expression.
RECURSIVE DigitsEnd(_, _)
DigitsEnd(s, i) ==
    IF i <= Len(s) /\ IsDigit(Char(s, i)) THEN DigitsEnd(s, i + 1) ELSE i - 1

\* Build_Mosaic.get_obsid: re.match(r'(P\d+)', basename of the first name).
get_obsid(filenames) ==
    IF filenames = <<>> THEN "UNKNOWN_OBSID"
    ELSE LET b == filenames[1]
         IN  IF StartsAt(b, 1, "P") /\ DigitsEnd(b, 2) >= 2
             THEN SubSeq(b, 1, DigitsEnd(b, 2))
             ELSE "UNKNOWN_OBSID"

\* Build_Mosaic.get_exposure_id: re.search(r'(OMS\d+)', basename), "" for None.
get_exposure_id(filename) ==
    LET hits == {i \in 1..Len(filename) :
                    StartsAt(filename, i, "OMS") /\ DigitsEnd(filename, i + 3) >= i + 3}
    IN  IF hits = {} THEN ""
        ELSE LET i == CHOOSE h \in hits : \A g \in hits : h <= g
             IN  SubSeq(filename, i, DigitsEnd(filename, i + 3))

\* Build_Mosaic.get_filter_from_header
get_filter_from_header(h) ==
    IF h = <<>> THEN "UNKNOWN" ELSE Upper(Strip(h[1]))

\* ' '.join(image_list)
RECURSIVE JoinBlank(_)
JoinBlank(names) ==
    IF names = <<>> THEN ""
    ELSE IF Len(names) = 1 THEN names[1]
    ELSE names[1] \o " " \o JoinBlank(Tail(names))

\* f"{obsid}_{filter_name}_jupiter_filtred_MOSAIC.FIT"
OutputName(image_list, filter_name) ==
    get_obsid(image_list) \o "_" \o filter_name \o "_jupiter_filtred_MOSAIC.FIT"

\* The orders in which the file system may list a set of names.
Orderings(S) ==
    {s \in [1..Cardinality(S) -> S] : \A i, j \in DOMAIN s : s[i] = s[j] => i = j}

\* glob.glob(os.path.join(self.directory, 'P*FIMAG*jpiter_filtred_rotated_WCS.FIT'))
FsimagFiles(dir) == Glob(dir, "P*FIMAG*jpiter_filtred_rotated_WCS.FIT")

\* Stacked-frame mode taken only when a stacked frame has a usable filter.
StackedModeUsable(dir, hdr) ==
    \E f \in FsimagFiles(dir) : get_filter_from_header(hdr[f]) /= "UNKNOWN"

\* `if fsimag_files:` -- stacked-frame mode is taken when any candidate exists.
StackedMode(dir, hdr) == FsimagFiles(dir) /= {}

\* images_by_filter.setdefault(filter_name, []).append(name)
SetDefaultAppend(groups, flt, f) ==
    IF \E i \in DOMAIN groups : groups[i].filter = flt
    THEN [i \in DOMAIN groups |->
            IF groups[i].filter = flt
            THEN [groups[i] EXCEPT !.images = Append(@, f)]
            ELSE groups[i]]
    ELSE Append(groups, [filter |-> flt, images |-> <<f>>])

\* The dictionary images_by_filter, in insertion order, built over the glob's
\* result: files whose filter is UNKNOWN are left out.
RECURSIVE GroupByFilter(_, _, _)
GroupByFilter(groups, order, hdr) ==
    IF order = <<>> THEN groups
    ELSE LET f   == Head(order)
             flt == get_filter_from_header(hdr[f])
         IN  GroupByFilter(IF flt = "UNKNOWN" THEN groups
                           ELSE SetDefaultAppend(groups, flt, f),
                           Tail(order), hdr)

\* for target_filter in ['UVW1', 'UVM2', 'UVL', 'U', 'B', 'V', 'WHITE']
HybridFilters == <<"UVW1", "UVM2", "UVL", "U", "B", "V", "WHITE">>

\* A search that keeps the companion frame of the selected exposure too.
find_images_any_exposure(dir, hdr, filter_name) ==
    LET valid == {f \in dir : /\ Contains(f, "jpiter_filtred")
                              /\ Contains(f, "rotated_WCS")
                              /\ Contains(f, "IMAGE_1000")
                              /\ get_filter_from_header(hdr[f]) = filter_name}
    IN  IF valid = {} THEN <<>>
        ELSE SortedStrings({SortedStrings(valid)[1]} \cup
                 {f \in dir : /\ Contains(f, "SIMAGE1000")
                              /\ get_filter_from_header(hdr[f]) = filter_name})

\* Build_Mosaic.find_images_for_hybrid_mosaic(filter_name)
find_images_for_hybrid_mosaic(dir, hdr, filter_name) ==
    LET jupiter_corrected_files ==
            {f \in dir : /\ Contains(f, "jpiter_filtred")
                         /\ Contains(f, "rotated_WCS")
                         /\ Contains(f, "IMAGE_1000")}
        valid == {f \in jupiter_corrected_files :
                     get_filter_from_header(hdr[f]) = filter_name}
    IN  IF valid = {} THEN <<>>
        ELSE LET jupiter_corrected_file == SortedStrings(valid)[1]
                 corrected_exposure_id  == get_exposure_id(jupiter_corrected_file)
                 simages ==
                     {f \in dir : /\ Contains(f, "SIMAGE1000")
                                  /\ get_exposure_id(f) /= corrected_exposure_id
                                  /\ get_filter_from_header(hdr[f]) = filter_name}
             IN  SortedStrings({jupiter_corrected_file} \cup simages)

\* The record of one w('ommosaic', params).run().
MosaicCall(mode, flt, images, dirNow, ok) ==
    [ mode        |-> mode,
      filter      |-> flt,
      imagesets   |-> JoinBlank(images),
      mosaicedset |-> OutputName(images, flt),
      cwd         |-> dirNow,
      ok          |-> ok ]

\* The working directory is left where the mosaic task ran.
NoRestore(saved, now) == now

\* finally: os.chdir(original_dir)
FinallyChdir(saved, now) == saved

\* create_new_mosaic up to the first ommosaic: mode detection, and in
\* stacked-frame mode the grouping by filter and the chdir to the directory.
MosaicDetect ==
    /\ mpc = "ready"
    /\ IF StackedMode(mfiles, mhdr)
       THEN \E order \in Orderings(FsimagFiles(mfiles)) :
              LET groups == GroupByFilter(<<>>, order, mhdr)
              IN  IF groups = <<>>
                  THEN /\ mpc' = "done"
                       /\ UNCHANGED <<cwd, original_dir, images_by_filter>>
                  ELSE /\ original_dir' = cwd
                       /\ cwd' = MosaicObs
                       /\ images_by_filter' = groups
                       /\ mpc' = "stacked"
       ELSE /\ mpc' = "hybrid_find"
            /\ UNCHANGED <<cwd, original_dir, images_by_filter>>
    /\ UNCHANGED <<mfiles, mhdr, target, image_files, mcalls, msearches, mcwd0>>

\* One iteration of the loop of stacked-frame mode: ommosaic for the next
\* filter. The try encloses the whole loop, so a failure leaves the loop.
MosaicStackedRun ==
    /\ mpc = "stacked"
    /\ images_by_filter /= <<>>
    /\ \E ok \in BOOLEAN :
        /\ mcalls' = Append(mcalls,
                        MosaicCall("stacked", Head(images_by_filter).filter,
                                   Head(images_by_filter).images, cwd, ok))
        /\ IF ok
           THEN /\ images_by_filter' = Tail(images_by_filter)
                /\ UNCHANGED <<mpc, cwd>>
           ELSE /\ images_by_filter' = <<>>
                /\ cwd' = FinallyChdir(original_dir, cwd)
                /\ mpc' = "done"
    /\ UNCHANGED <<mfiles, mhdr, original_dir, target, image_files, msearches, mcwd0>>

\* The loop of stacked-frame mode is exhausted: the finally clause.
MosaicStackedEnd ==
    /\ mpc = "stacked"
    /\ images_by_filter = <<>>
    /\ cwd' = FinallyChdir(original_dir, cwd)
    /\ mpc' = "done"
    /\ UNCHANGED <<mfiles, mhdr, original_dir, images_by_filter, target,
                   image_files, mcalls, msearches, mcwd0>>

\* One iteration of hybrid mode up to the ommosaic: the search for the
\* target filter's images, and the chdir when there are any.
MosaicHybridFind ==
    /\ mpc = "hybrid_find"
    /\ target <= Len(HybridFilters)
    /\ msearches' = msearches + 1
    /\ LET found == find_images_for_hybrid_mosaic(mfiles, mhdr, HybridFilters[target])
       IN  IF found = <<>>
           THEN /\ target' = target + 1
                /\ UNCHANGED <<mpc, cwd, original_dir, image_files>>
           ELSE /\ image_files' = found
                /\ original_dir' = cwd
                /\ cwd' = MosaicObs
                /\ mpc' = "hybrid_run"
                /\ UNCHANGED target
    /\ UNCHANGED <<mfiles, mhdr, images_by_filter, mcalls, mcwd0>>

\* The ommosaic of one filter of hybrid mode, inside the loop's own try.
MosaicHybridRun ==
    /\ mpc = "hybrid_run"
    /\ \E ok \in BOOLEAN :
        mcalls' = Append(mcalls,
                     MosaicCall("hybrid", HybridFilters[target], image_files, cwd, ok))
    /\ cwd' = FinallyChdir(original_dir, cwd)
    /\ target' = target + 1
    /\ mpc' = "hybrid_find"
    /\ UNCHANGED <<mfiles, mhdr, original_dir, images_by_filter, image_files,
                   msearches, mcwd0>>

\* The priority list is exhausted.
MosaicHybridEnd ==
    /\ mpc = "hybrid_find"
    /\ target > Len(HybridFilters)
    /\ mpc' = "done"
    /\ UNCHANGED <<cwd, mfiles, mhdr, original_dir, images_by_filter, target,
                   image_files, mcalls, msearches, mcwd0>>

(***************************************************************************)
(* RunOmichain (running_omichain.py): the reduction driver.                 *)
(***************************************************************************)

\* The observation directories of the batch root.
NumObs == 2

\* The times the driver is run over the same batch root.
MaxRuns == 2

\* The most files the stray-light loop finds in one `work` directory.
MaxCorr == 1

Obs == 1..NumObs

\* os.listdir(self.directory) when run starts: the observation directories,
\* the archives left beside them and, once a run has logged, the log file.
\* The order of the entries is the file system's. The observations are
\* numbered by the place of their directories in it (dirs); the plain files
\* (files: the archive of observation o as o, the log file as 0) stand
\* anywhere among them, and `if os.path.isdir(folder_path)` passes them over
\* wherever they stand. A later run over the same root lists the directories
\* in the same order.
ListDir(tars, log) ==
    [dirs  |-> [i \in 1..NumObs |-> i],
     files |-> {o \in Obs : tars[o]} \cup (IF log THEN {0} ELSE {})]

\* The marker test made on the input directory instead of `work`.
WorkExistsOdf(o) == odf[o]

\* os.path.exists(work_dir)
WorkExists(o) == work[o]

\* The directory is made somewhere else: the observation gets no `work`.
MakedirsElsewhere(w, o) == w

\* os.makedirs(work_dir, exist_ok=True), when it succeeds.
Makedirs(w, o) == [w EXCEPT ![o] = TRUE]

\* sas_files = [f for f in os.listdir(work_dir) if f.endswith('.SAS')], as a
\* truth value: `if sas_files:`
SasFiles(o) == sas[o]

\* The record of one stage or external task run on behalf of the current
\* observation, with the process state it ran in.
Invocation(step) ==
    [step |-> step, cwd |-> cwd, SAS_ODF |-> SAS_ODF, SAS_CCF |-> SAS_CCF]

Invoke(step) == [invoked EXCEPT ![cur] = Append(@, Invocation(step))]

\* The steps of the post-processing chain, as they appear in `invoked`.
PostSteps ==
    { "Jupiter_Corrector", "OMAttBatchProcessor", "sincronizar_wcs_de_fits",
      "Build_Mosaic", "UVImageCombiner", "running_Sextractor",
      "apply_segmentation_mask" }

\* The external reduction tasks run by run_commands_in_directory.
ReductionSteps == {"sasver", "omichain"}

StepsOf(o) == {invoked[o][i].step : i \in DOMAIN invoked[o]}

\* The calibration index set by the first observation only and then kept.
CcfSetOnce(prev, o) == IF prev = 0 THEN o ELSE prev

\* os.environ['SAS_CCF'] = os.path.join(<work of o>, 'ccf.cif')
WorkCcf(prev, o) == o

\* The exception of a stage ends the chain of the observation.
AbortChain(ok, next) == IF ok THEN next ELSE "rmodf"

\* try: <stage> except Exception: log -- the statement after the try block
\* is reached whether the stage returned or raised.
AfterStage(ok, next) == next

\* A post-processing step that raised leaves a successful observation
\* part-way; an observation already in error stays as it was recorded.
PostFailed(now) == IF now = "ok" THEN "post" ELSE now

\* The next directory of the listing.
entry == listing.dirs[idx]

\* for folder_name in os.listdir(self.directory): the loop goes on with the
\* directory at place i of the listing, or run returns when none is left.
LoopNext(i) == IF i > Len(listing.dirs) THEN "done" ELSE "loop"

\* self.log_message(...) opens the log file and writes to it, with no guard
\* of its own: when the write raises, the exception is that of the statement
\* that called log_message.

\* log_message(line 115); if os.path.exists(work_dir): log_message(line 118);
\* already_processed.append; continue. Both log writes stand outside the try of
\* run: when one raises, run is left with nothing appended (first: the write of
\* line 115 was made).
SkipAlreadyProcessed ==
    /\ pc = "loop"
    /\ idx <= Len(listing.dirs)
    /\ WorkExists(entry)
    /\ reached' = [reached EXCEPT ![entry] = IF work[entry] THEN "work" ELSE "nowork"]
    /\ \E logged \in BOOLEAN, first \in BOOLEAN :
        IF logged
        THEN /\ already_processed' = Append(already_processed, entry)
             /\ logfile' = TRUE
             /\ idx' = idx + 1
             /\ pc' = LoopNext(idx + 1)
        ELSE /\ logfile' = (logfile \/ first)
             /\ pc' = "raised"
             /\ UNCHANGED <<already_processed, idx>>
    /\ UNCHANGED <<work, odf, tar, sas, cfgvars, processed_observations,
                   error_observations, envvars, listing, cur, odf_dir, invoked,
                   modified, outcome, ranIn, runNo, current_dir,
                   files_to_correct, cwd>>

\* An observation without `work`: the input directory is chosen. The log
\* writes of lines 115, 123 and 124 stand outside the try of run: when one
\* raises, run is left before os.makedirs.
BeginObservation ==
    /\ pc = "loop"
    /\ idx <= Len(listing.dirs)
    /\ ~WorkExists(entry)
    /\ reached' = [reached EXCEPT ![entry] = IF work[entry] THEN "work" ELSE "nowork"]
    /\ \E logged \in BOOLEAN, first \in BOOLEAN :
        IF logged
        THEN /\ cur' = entry
             /\ odf_dir' = IF odf[entry] THEN "odf" ELSE "root"
             /\ logfile' = TRUE
             /\ idx' = idx + 1
             /\ pc' = "makedirs"
        ELSE /\ logfile' = (logfile \/ first)
             /\ pc' = "raised"
             /\ UNCHANGED <<cur, odf_dir, idx>>
    /\ UNCHANGED <<work, odf, tar, sas, cfgvars, listvars, envvars, listing,
                   invoked, modified, outcome, ranIn, runNo, current_dir,
                   files_to_correct, cwd>>

\* os.makedirs(work_dir, exist_ok=True), outside the try: an OSError leaves run.
MakeWork ==
    /\ pc = "makedirs"
    /\ \E ok \in BOOLEAN :
        IF ok
        THEN /\ work' = Makedirs(work, cur)
             /\ modified' = [modified EXCEPT ![cur] = TRUE]
             /\ ranIn' = [ranIn EXCEPT ![cur] = runNo]
             /\ pc' = "copy"
        ELSE /\ pc' = "raised"
             /\ UNCHANGED <<work, modified, ranIn>>
    /\ UNCHANGED <<odf, tar, sas, logfile, cfgvars, listvars, envvars, loopvars,
                   invoked, outcome, reached, runNo, current_dir, files_to_correct, cwd>>

\* except Exception as e: self.log_message(...);
\* self.error_observations.append(folder_name) -- the handler of the try of
\* run. Its log write comes first: when it raises, nothing is appended and the
\* exception leaves run. `out` is the outcome the statements before the
\* handler left.
Handler(out) ==
    \E logged \in BOOLEAN :
        IF logged
        THEN /\ error_observations' = Append(error_observations, cur)
             /\ outcome' = [out EXCEPT ![cur] = "setup"]
             /\ pc' = "rmtar"
        ELSE /\ error_observations' = error_observations
             /\ outcome' = out
             /\ pc' = "raised"

\* An exception of a statement of the try of run, its log writes included.
Except == Handler(outcome)

\* shutil.copy(self.initsas_path, initsas_dest_path)
CopyInitsas ==
    /\ pc = "copy"
    /\ \E ok \in BOOLEAN :
        IF ok
        THEN /\ pc' = "unpack"
             /\ UNCHANGED <<error_observations, outcome>>
        ELSE Except
    /\ UNCHANGED <<fsvars, cfgvars, processed_observations, already_processed,
                   envvars, loopvars, invoked, modified, ranIn, reached, runNo,
                   current_dir, files_to_correct, cwd>>

\* self.unpack_tar_files(odf_dir)
UnpackTarFiles ==
    /\ pc = "unpack"
    /\ \E ok \in BOOLEAN :
        IF ok
        THEN /\ pc' = "update"
             /\ UNCHANGED <<error_observations, outcome>>
        ELSE Except
    /\ UNCHANGED <<fsvars, cfgvars, processed_observations, already_processed,
                   envvars, loopvars, invoked, modified, ranIn, reached, runNo,
                   current_dir, files_to_correct, cwd>>

\* self.update_initsas_script(initsas_dest_path, odf_dir)
UpdateInitsasScript ==
    /\ pc = "update"
    /\ \E ok \in BOOLEAN :
        IF ok
        THEN /\ pc' = "initsas"
             /\ UNCHANGED <<error_observations, outcome>>
        ELSE Except
    /\ UNCHANGED <<fsvars, cfgvars, processed_observations, already_processed,
                   envvars, loopvars, invoked, modified, ranIn, reached, runNo,
                   current_dir, files_to_correct, cwd>>

\* subprocess.run(["bash", "-c", "cd work && . ./initsas.sh"], check=True);
\* self.log_message(...): the script leaves a descriptor (.SAS) file in
\* `work`, or none; it exits with an error, or the log write after it raises,
\* with the descriptor left or not.
RunInitsas ==
    /\ pc = "initsas"
    /\ invoked' = Invoke("initsas")
    /\ \E descriptor \in BOOLEAN : sas' = [sas EXCEPT ![cur] = descriptor]
    /\ \E ok \in BOOLEAN :
        IF ok
        THEN /\ pc' = "sas_files"
             /\ UNCHANGED <<error_observations, outcome>>
        ELSE Except
    /\ UNCHANGED <<work, odf, tar, logfile, cfgvars, processed_observations,
                   already_processed, envvars, loopvars, modified, ranIn, reached, runNo,
                   current_dir, files_to_correct, cwd>>

\* The observation is recorded, and control falls into the chain that
\* follows the if/else of the reduction.
NoSasFileFallsThrough ==
    /\ error_observations' = Append(error_observations, cur)
    /\ outcome' = [outcome EXCEPT ![cur] = "nosas"]
    /\ pc' = "omatt"

\* else: self.log_message("Nenhum arquivo .SAS ..."); error_observations.append
NoSasFile ==
    /\ error_observations' = Append(error_observations, cur)
    /\ outcome' = [outcome EXCEPT ![cur] = "nosas"]
    /\ pc' = "rmodf"

\* sas_files = [...]; if sas_files: ... else: ... -- the log write of line 233
\* comes before the append of line 234.
FindSasFile ==
    /\ pc = "sas_files"
    /\ IF SasFiles(cur)
       THEN /\ pc' = "run_commands"
            /\ UNCHANGED <<error_observations, outcome>>
       ELSE \E logged \in BOOLEAN : IF logged THEN NoSasFile ELSE Except
    /\ UNCHANGED <<fsvars, cfgvars, processed_observations, already_processed,
                   envvars, loopvars, invoked, modified, ranIn, reached, runNo,
                   current_dir, files_to_correct, cwd>>

\* run_commands_in_directory up to its try: the log write of line 75 raises
\* (unlogged); or the environment is set and then a log write raises or the
\* path of the descriptor does not exist (a link to a missing file is listed
\* by os.listdir) and line 83 raises FileNotFoundError (missing); or the
\* directory is entered. The exceptions go to the handler of run.
RunCommandsEnter ==
    /\ pc = "run_commands"
    /\ \E r \in {"unlogged", "missing", "entered"} :
        CASE r = "unlogged" ->
                /\ Except
                /\ UNCHANGED <<envvars, current_dir, cwd>>
          [] r = "missing" ->
                /\ SAS_ODF' = cur
                /\ SAS_CCF' = WorkCcf(SAS_CCF, cur)
                /\ Except
                /\ UNCHANGED <<current_dir, cwd>>
          [] r = "entered" ->
                /\ SAS_ODF' = cur
                /\ SAS_CCF' = WorkCcf(SAS_CCF, cur)
                /\ current_dir' = cwd
                /\ cwd' = cur
                /\ pc' = "sasver"
                /\ UNCHANGED <<error_observations, outcome>>
    /\ UNCHANGED <<fsvars, cfgvars, processed_observations, already_processed,
                   loopvars, invoked, modified, ranIn, reached, runNo, files_to_correct>>

\* run_commands_in_directory returned False and stayed in the directory of
\* the observation.
ReductionFailedNoChdir ==
    /\ cwd' = cwd
    /\ error_observations' = Append(error_observations, cur)
    /\ outcome' = [outcome EXCEPT ![cur] = "reduction"]
    /\ pc' = "omatt"
    /\ UNCHANGED <<processed_observations, files_to_correct>>

\* run_commands_in_directory returned False: finally: os.chdir(current_dir),
\* and in run: else: self.error_observations.append(folder_name); the chain
\* from OMAttBatchProcessor on follows the if/else.
ReductionFailed ==
    /\ cwd' = current_dir
    /\ error_observations' = Append(error_observations, cur)
    /\ outcome' = [outcome EXCEPT ![cur] = "reduction"]
    /\ pc' = "omatt"
    /\ UNCHANGED <<processed_observations, files_to_correct>>

\* The log write of the except clause of run_commands_in_directory (line 95)
\* raises: finally: os.chdir(current_dir), no value is returned and the
\* exception goes to the handler of run.
ReductionRaised ==
    /\ cwd' = current_dir
    /\ Handler(outcome)
    /\ UNCHANGED <<processed_observations, files_to_correct>>

\* self.log_message("Executando sasver..."); w('sasver', []).run() -- the task
\* is not called when the log write before it raises.
Sasver ==
    /\ pc = "sasver"
    /\ \E called \in BOOLEAN, r \in {"ok", "false", "raised"} :
        /\ r = "ok" => called
        /\ invoked' = IF called THEN Invoke("sasver") ELSE invoked
        /\ CASE r = "ok" ->
                   /\ pc' = "omichain"
                   /\ UNCHANGED <<cwd, processed_observations, error_observations,
                                  outcome, files_to_correct>>
             [] r = "false" -> ReductionFailed
             [] r = "raised" -> ReductionRaised
    /\ UNCHANGED <<fsvars, cfgvars, already_processed, envvars, loopvars,
                   modified, ranIn, reached, runNo, current_dir>>

\* self.log_message("Executando omichain..."); w('omichain', [...]).run();
\* self.log_message(...); return True. On success the directory is restored,
\* run appends to processed_observations and globs the files of the
\* stray-light loop; with no file it writes the log (line 160), and an
\* exception of that write goes to the handler of run (unlogged). A log write
\* that raises inside the try of run_commands_in_directory is a failure of the
\* reduction like that of the task.
Omichain ==
    /\ pc = "omichain"
    /\ \E called \in BOOLEAN, r \in {"ok", "unlogged", "false", "raised"} :
        /\ r \in {"ok", "unlogged"} => called
        /\ invoked' = IF called THEN Invoke("omichain") ELSE invoked
        /\ CASE r = "ok" ->
                   /\ cwd' = current_dir
                   /\ processed_observations' = Append(processed_observations, cur)
                   /\ outcome' = [outcome EXCEPT ![cur] = "ok"]
                   /\ files_to_correct' \in 0..MaxCorr
                   /\ pc' = "correct"
                   /\ UNCHANGED error_observations
             [] r = "unlogged" ->
                   /\ cwd' = current_dir
                   /\ processed_observations' = Append(processed_observations, cur)
                   /\ files_to_correct' = 0
                   /\ Handler([outcome EXCEPT ![cur] = "ok"])
             [] r = "false" -> ReductionFailed
             [] r = "raised" -> ReductionRaised
    /\ UNCHANGED <<fsvars, cfgvars, already_processed, envvars, loopvars,
                   modified, ranIn, reached, runNo, current_dir>>

\* One file of `for file_path in files_to_correct`: fits.open, the header or
\* the log write of line 171 raises before the corrector is called
\* (unreadable), or its filter is not UVW1, or Jupiter_Corrector corrects it,
\* or Jupiter_Corrector or the log write after it raises. The except clause
\* logs the exception; when that write raises too, the loop is left for the
\* handler of run.
CorrectFile ==
    /\ pc = "correct"
    /\ files_to_correct > 0
    /\ \E r \in {"unreadable", "other_filter", "corrected", "raised"},
          logged \in BOOLEAN :
        /\ r \in {"other_filter", "corrected"} => logged
        /\ invoked' = IF r \in {"unreadable", "other_filter"} THEN invoked
                      ELSE Invoke("Jupiter_Corrector")
        /\ IF logged
           THEN /\ files_to_correct' = files_to_correct - 1
                /\ outcome' = IF r \in {"unreadable", "raised"}
                              THEN [outcome EXCEPT ![cur] = PostFailed(@)]
                              ELSE outcome
                /\ pc' = pc
                /\ UNCHANGED error_observations
           ELSE /\ files_to_correct' = 0
                /\ Handler([outcome EXCEPT ![cur] = PostFailed(@)])
    /\ UNCHANGED <<fsvars, cfgvars, processed_observations, already_processed,
                   envvars, loopvars, modified, ranIn, reached, runNo,
                   current_dir, cwd>>

\* The stray-light loop is exhausted.
CorrectDone ==
    /\ pc = "correct"
    /\ files_to_correct = 0
    /\ pc' = "omatt"
    /\ UNCHANGED <<fsvars, cfgvars, listvars, envvars, loopvars, histvars,
                   runNo, current_dir, files_to_correct, cwd>>

\* One try block of the chain, `try: step(); log_message(...) except Exception:
\* log_message(...)`: the step and the log write return (ok); or one of them
\* raises and the except clause logs it (failed); or the log write of the
\* except clause raises too and the exception goes to the handler of run
\* (raised). Where a log write stands before the step (logs_first), the step
\* is not called when that write raises.
PostStep(at, step, next, logs_first) ==
    /\ pc = at
    /\ \E called \in BOOLEAN, r \in {"ok", "failed", "raised"} :
        /\ ~called => (logs_first /\ r /= "ok")
        /\ invoked' = IF called THEN Invoke(step) ELSE invoked
        /\ CASE r = "ok" ->
                   /\ pc' = AfterStage(TRUE, next)
                   /\ UNCHANGED <<error_observations, outcome>>
             [] r = "failed" ->
                   /\ outcome' = [outcome EXCEPT ![cur] = PostFailed(@)]
                   /\ pc' = AfterStage(FALSE, next)
                   /\ UNCHANGED error_observations
             [] r = "raised" ->
                   Handler([outcome EXCEPT ![cur] = PostFailed(@)])
    /\ UNCHANGED <<fsvars, cfgvars, processed_observations, already_processed,
                   SAS_ODF, loopvars, modified, ranIn, reached, runNo,
                   current_dir, files_to_correct, cwd>>

\* OMAttBatchProcessor(...).run() up to its loop: it raises before the
\* environment is touched (no directory, no image), or sets SAS_CCF.
RunOMAtt ==
    /\ pc = "omatt"
    /\ invoked' = Invoke("OMAttBatchProcessor")
    /\ \E r \in {"ok", "failed", "raised"} :
        CASE r = "ok" ->
                /\ SAS_CCF' = WorkCcf(SAS_CCF, cur)
                /\ pc' = "omatt_task"
                /\ UNCHANGED <<error_observations, outcome>>
          [] r = "failed" ->
                /\ outcome' = [outcome EXCEPT ![cur] = PostFailed(@)]
                /\ pc' = AfterStage(FALSE, "sync")
                /\ UNCHANGED <<error_observations, SAS_CCF>>
          [] r = "raised" ->
                /\ Handler([outcome EXCEPT ![cur] = PostFailed(@)])
                /\ UNCHANGED SAS_CCF
    /\ UNCHANGED <<fsvars, cfgvars, processed_observations, already_processed,
                   SAS_ODF, loopvars, modified, ranIn, reached, runNo,
                   current_dir, files_to_correct, cwd>>

\* The loop of OMAttBatchProcessor.run: omatt for each record; the failure
\* of a record is caught there, and run returns; then the log write of line
\* 191, whose exception the except clause of line 195 logs.
OmattTasks ==
    /\ pc = "omatt_task"
    /\ \E r \in {"ok", "failed", "raised"} :
        CASE r = "ok" ->
                /\ pc' = AfterStage(TRUE, "sync")
                /\ UNCHANGED <<error_observations, outcome>>
          [] r = "failed" ->
                /\ outcome' = [outcome EXCEPT ![cur] = PostFailed(@)]
                /\ pc' = AfterStage(FALSE, "sync")
                /\ UNCHANGED error_observations
          [] r = "raised" ->
                Handler([outcome EXCEPT ![cur] = PostFailed(@)])
    /\ UNCHANGED <<fsvars, cfgvars, processed_observations, already_processed,
                   envvars, loopvars, invoked, modified, ranIn, reached, runNo,
                   current_dir, files_to_correct, cwd>>

\* sincronizar_wcs_de_fits(work_dir)
RunSyncWcs ==
    PostStep("sync", "sincronizar_wcs_de_fits", "mosaic", FALSE) /\ UNCHANGED SAS_CCF

\* The band combiner run where the mosaic builder is due.
RunCombinerEarly ==
    PostStep("mosaic", "UVImageCombiner", "combine", FALSE)
        /\ UNCHANGED <<SAS_CCF, original_dir>>

\* Build_Mosaic(work).create_new_mosaic() up to its first ommosaic: it
\* saves os.getcwd() and enters the `work` directory for the task (entered);
\* or it finds nothing to build from and returns, os.chdir raises and is
\* caught, or a search of its own raises to run, all without a change of
\* directory; then the log write of line 206, 208 or 210 (ok, failed), which
\* raises to the handler of run when the write of the except clause raises
\* too (raised).
RunBuildMosaic ==
    /\ pc = "mosaic"
    /\ invoked' = Invoke("Build_Mosaic")
    /\ \E r \in {"entered", "ok", "failed", "raised"} :
        CASE r = "entered" ->
                /\ original_dir' = cwd
                /\ cwd' = cur
                /\ pc' = "ommosaic_task"
                /\ UNCHANGED <<error_observations, outcome>>
          [] r = "ok" ->
                /\ pc' = AfterStage(TRUE, "combine")
                /\ UNCHANGED <<error_observations, outcome, original_dir, cwd>>
          [] r = "failed" ->
                /\ outcome' = [outcome EXCEPT ![cur] = PostFailed(@)]
                /\ pc' = AfterStage(FALSE, "combine")
                /\ UNCHANGED <<error_observations, original_dir, cwd>>
          [] r = "raised" ->
                /\ Handler([outcome EXCEPT ![cur] = PostFailed(@)])
                /\ UNCHANGED <<original_dir, cwd>>
    /\ UNCHANGED <<fsvars, cfgvars, processed_observations, already_processed,
                   envvars, loopvars, modified, ranIn, reached, runNo,
                   current_dir, files_to_correct>>

\* The builder leaves the directory it entered as it is.
OmmosaicTasksNoChdir ==
    /\ pc = "ommosaic_task"
    /\ pc' = AfterStage(TRUE, "combine")
    /\ UNCHANGED <<fsvars, cfgvars, listvars, envvars, loopvars, histvars,
                   runNo, current_dir, files_to_correct, cwd, original_dir>>

\* The ommosaic tasks of the builder in the `work` directory, whose failures
\* it catches; finally: os.chdir(original_dir); the builder returns, or a
\* later search of its own raises to run; then the log write of line 206 or
\* of the except clause.
OmmosaicTasks ==
    /\ pc = "ommosaic_task"
    /\ cwd' = original_dir
    /\ \E r \in {"ok", "failed", "raised"} :
        CASE r = "ok" ->
                /\ pc' = AfterStage(TRUE, "combine")
                /\ UNCHANGED <<error_observations, outcome>>
          [] r = "failed" ->
                /\ outcome' = [outcome EXCEPT ![cur] = PostFailed(@)]
                /\ pc' = AfterStage(FALSE, "combine")
                /\ UNCHANGED error_observations
          [] r = "raised" ->
                Handler([outcome EXCEPT ![cur] = PostFailed(@)])
    /\ UNCHANGED <<fsvars, cfgvars, processed_observations, already_processed,
                   envvars, loopvars, invoked, modified, ranIn, reached, runNo,
                   current_dir, files_to_correct, original_dir>>

\* UVImageCombiner(work).run()
RunCombiner ==
    PostStep("combine", "UVImageCombiner", "sextractor", FALSE) /\ UNCHANGED SAS_CCF

\* running_Sextractor(work_dir, log_func=self.log_message)
RunSextractor ==
    PostStep("sextractor", "running_Sextractor", "mask", TRUE) /\ UNCHANGED SAS_CCF

\* apply_segmentation_mask(work_dir, log_func=self.log_message)
RunApplyMask ==
    PostStep("mask", "apply_segmentation_mask", "rmodf", TRUE) /\ UNCHANGED SAS_CCF

\* The `odf` directory removed whatever the configuration says.
RemoveOdfAlways ==
    /\ pc = "rmodf"
    /\ odf' = [odf EXCEPT ![cur] = FALSE]
    /\ pc' = "rmtar"
    /\ UNCHANGED <<work, tar, sas, logfile, cfgvars, listvars, envvars, loopvars,
                   histvars, runNo, current_dir, files_to_correct, cwd>>

\* self.remove_odf_directory(folder_path): shutil.rmtree(odf) when configured
\* and present; an exception of rmtree is caught and logged, and odf stays.
\* The function writes the log unless remove_odf is set and there is no odf;
\* an exception of the write of line 107 or 109 goes to the handler of run.
RemoveOdfDirectory ==
    /\ pc = "rmodf"
    /\ \E removed \in BOOLEAN, logged \in BOOLEAN :
        /\ (remove_odf /\ ~odf[cur]) => logged
        /\ odf' = IF remove_odf /\ removed THEN [odf EXCEPT ![cur] = FALSE] ELSE odf
        /\ IF logged
           THEN /\ pc' = "rmtar"
                /\ UNCHANGED <<error_observations, outcome>>
           ELSE Except
    /\ UNCHANGED <<work, tar, sas, logfile, cfgvars, processed_observations,
                   already_processed, envvars, loopvars, invoked, modified,
                   ranIn, reached, runNo, current_dir, files_to_correct, cwd>>

\* if self.remove_tar: self.remove_tar_file(self.directory, folder_name):
\* os.remove of the archive <folder_name>.tar.gz of the batch root, if any;
\* an exception of os.remove is caught and logged, and the archive stays. The
\* call stands after the try of run: an exception of the log write of line 70
\* or 72 leaves run.
RemoveTarFile ==
    /\ pc = "rmtar"
    /\ \E removed \in BOOLEAN, logged \in BOOLEAN :
        /\ ~remove_tar => logged
        /\ tar' = IF remove_tar /\ removed THEN [tar EXCEPT ![cur] = FALSE] ELSE tar
        /\ pc' = IF logged THEN LoopNext(idx) ELSE "raised"
    /\ UNCHANGED <<work, odf, sas, logfile, cfgvars, listvars, envvars, loopvars,
                   histvars, runNo, current_dir, files_to_correct, cwd>>

\* The driver is run again over the same batch root: RunOmichain(...) in a
\* new process, with the file system as the run before left it.
StartRun ==
    /\ pc \in {"done", "raised"}
    /\ runNo < MaxRuns
    /\ runNo' = runNo + 1
    /\ processed_observations' = <<>>
    /\ error_observations' = <<>>
    /\ already_processed' = <<>>
    /\ listing' = ListDir(tar, logfile)
    /\ idx' = 1
    /\ cur' = 0
    /\ odf_dir' = "root"
    /\ pc' = "loop"
    /\ cwd' = 0
    /\ current_dir' = 0
    /\ SAS_ODF' = 0
    /\ SAS_CCF' = 0
    /\ files_to_correct' = 0
    /\ invoked' = [o \in Obs |-> <<>>]
    /\ modified' = [o \in Obs |-> FALSE]
    /\ reached' = [o \in Obs |-> "no"]
    /\ UNCHANGED <<fsvars, cfgvars, outcome, ranIn>>

(***************************************************************************)
(* UVImageCombiner.combine_two_images (mosaic_combiner.py).                 *)
(***************************************************************************)

\* The number of pixels of an image.
NPix == 2

\* The largest magnitude of an ordinary pixel value.
MaxPix == 1

\* A pixel value: an ordinary number, NaN, an infinity, the largest finite
\* float32 and its negative, or a finite float64 beyond the float32 range.
Fin(n) == [k |-> "fin", v |-> n]
Special(kind) == [k |-> kind, v |-> 0]
NaN == Special("nan")
PosInf == Special("inf")
NegInf == Special("ninf")
Float32Max == Special("max")
Float32Min == Special("nmax")
Huge == Special("huge")

\* The pixel values of the input images.
PixelValues == {Fin(n) : n \in -MaxPix..MaxPix} \cup {NaN, PosInf, NegInf, Huge}

\* .astype(np.float32): a finite value beyond the float32 range becomes inf.
AsFloat32(p) == IF p = Huge THEN PosInf ELSE p

\* The data taken as they are: NaN and the infinities stay.
KeepNaN(p) == p

\* np.nan_to_num: NaN becomes 0, the infinities become the largest finite
\* values of the type.
NanToNum(p) ==
    CASE p.k = "nan"  -> Fin(0)
      [] p.k = "inf"  -> Float32Max
      [] p.k = "ninf" -> Float32Min
      [] OTHER        -> p

\* data1 + data2 in float32, for one pixel.
Add32(a, b) ==
    LET ks == {a.k, b.k}
    IN  CASE "nan" \in ks                 -> NaN
          [] ks = {"inf", "ninf"}         -> NaN
          [] "inf" \in ks                 -> PosInf
          [] "ninf" \in ks                -> NegInf
          [] ks = {"max"}                 -> PosInf
          [] ks = {"nmax"}                -> NegInf
          [] ks = {"max", "nmax"}         -> Fin(0)
          [] "max" \in ks                 -> Float32Max
          [] "nmax" \in ks                -> Float32Min
          [] OTHER                        -> Fin(a.v + b.v)

\* UVImageCombiner.combine_two_images(file1, file2)
CombineTwoImages ==
    /\ ipc = "ready"
    /\ LET data1 == [i \in DOMAIN file1.data |-> NanToNum(AsFloat32(file1.data[i]))]
           data2 == [i \in DOMAIN file2.data |-> NanToNum(AsFloat32(file2.data[i]))]
       IN  combined' = [data   |-> [i \in DOMAIN data1 |-> Add32(data1[i], data2[i])],
                        header |-> file1.header]
    /\ ipc' = "done"
    /\ UNCHANGED <<file1, file2>>

(***************************************************************************)
(* apply_segmentation_mask (SExtractor.py).                                 *)
(***************************************************************************)

\* The largest number of pixels of an image or of a segmentation map.
MaskPix == 2

\* The shapes of the data: images of MaskPix - 1 or of MaskPix pixels.
MaskShapes == {MaskPix - 1, MaskPix}

\* The pixel values of an image, and those of a segmentation map.
ImageValues == {1, 2}
SegValues == {-1, 0, 1}

\* The contents a file of the directory may have; <<>> stands for no file.
ImageContents == UNION {[1..n -> ImageValues] : n \in MaskShapes}
SegContents   == UNION {[1..n -> SegValues] : n \in MaskShapes}
UniformImages == {[i \in 1..n |-> 2] : n \in MaskShapes}
UniformSegs   == {[i \in 1..n |-> 1] : n \in MaskShapes}

\* The directory with the files that are there.
DirOf(a, aseg, b, bseg) ==
    LET all == [name \in {"A.FIT", "A_segmentation_map.FIT",
                          "B.FIT", "B_segmentation_map.FIT"} |->
                   CASE name = "A.FIT"                  -> a
                     [] name = "A_segmentation_map.FIT" -> aseg
                     [] name = "B.FIT"                  -> b
                     [] name = "B_segmentation_map.FIT" -> bseg]
    IN  [name \in {n \in DOMAIN all : all[n] /= <<>>} |-> all[name]]

\* original_base_name = base_seg_name.replace('_segmentation_map', '')
OriginalName(base_seg_name) == RemoveAll(base_seg_name, "_segmentation_map")

\* output_file_name = f"{base_out}_masked{ext_out}"
MaskedName(original_base_name) ==
    SplitExt(original_base_name)[1] \o "_masked" \o SplitExt(original_base_name)[2]

\* The mask taken as `data_seg != 0`.
MaskedNonZero(data_original, data_seg) ==
    [i \in DOMAIN data_original |-> IF data_seg[i] /= 0 THEN 0 ELSE data_original[i]]

\* data_mascarada = np.copy(data_original); data_mascarada[data_seg > 0] = 0
Masked(data_original, data_seg) ==
    [i \in DOMAIN data_original |-> IF data_seg[i] > 0 THEN 0 ELSE data_original[i]]

\* fits.writeto(path, data, header, overwrite=True)
WriteTo(dir, name, data) ==
    [n \in DOMAIN dir \cup {name} |-> IF n = name THEN data ELSE dir[n]]

\* The loop stopped at the first map it skips.
BreakOnSkip(maps) == <<>>

\* `continue`: the loop goes on with the maps that follow the skipped one.
AfterSkip(maps) == Tail(maps)

\* mapas_de_segmentacao = glob.glob(".../*_segmentation_map.*")
MaskBegin ==
    /\ kpc = "ready"
    /\ kmaps' \in Orderings(Glob(DOMAIN kdir, "*_segmentation_map.*"))
    /\ kpc' = "loop"
    /\ UNCHANGED <<kdir, kdir0, kout, kseen>>

\* if not os.path.isfile(original_image_path): ... continue
MaskSkipMissing ==
    /\ kpc = "loop" /\ kmaps /= <<>>
    /\ OriginalName(Head(kmaps)) \notin DOMAIN kdir
    /\ kmaps' = AfterSkip(kmaps)
    /\ kseen' = Append(kseen, [map |-> Head(kmaps), outcome |-> "missing"])
    /\ UNCHANGED <<kdir, kdir0, kpc, kout>>

\* Both files were read: if data_original.shape != data_seg.shape: ...
\* continue
MaskSkipShape ==
    /\ kpc = "loop" /\ kmaps /= <<>>
    /\ OriginalName(Head(kmaps)) \in DOMAIN kdir
    /\ Len(kdir[OriginalName(Head(kmaps))]) /= Len(kdir[Head(kmaps)])
    /\ kmaps' = AfterSkip(kmaps)
    /\ kseen' = Append(kseen, [map |-> Head(kmaps), outcome |-> "shape"])
    /\ UNCHANGED <<kdir, kdir0, kpc, kout>>

\* The try of the loop body.  Both files are opened and read before their
\* shapes are compared, so an exception of the reading is caught for a pair
\* of any shapes; the masked copy is written only for a pair of equal
\* shapes, and an exception of the writing is caught as well.  The handler
\* logs and leaves no output.
MaskApply ==
    /\ kpc = "loop" /\ kmaps /= <<>>
    /\ OriginalName(Head(kmaps)) \in DOMAIN kdir
    /\ \E ok \in BOOLEAN :
        IF ok
        THEN LET image == OriginalName(Head(kmaps))
                 out   == MaskedName(image)
             IN  /\ Len(kdir[image]) = Len(kdir[Head(kmaps)])
                 /\ kdir' = WriteTo(kdir, out, Masked(kdir[image], kdir[Head(kmaps)]))
                 /\ kout' = Append(kout, [map |-> Head(kmaps), image |-> image, out |-> out])
                 /\ kseen' = Append(kseen, [map |-> Head(kmaps), outcome |-> "written"])
        ELSE /\ kseen' = Append(kseen, [map |-> Head(kmaps), outcome |-> "error"])
             /\ UNCHANGED <<kdir, kout>>
    /\ kmaps' = Tail(kmaps)
    /\ UNCHANGED <<kdir0, kpc>>

\* The loop over the maps is exhausted.
MaskEnd ==
    /\ kpc = "loop" /\ kmaps = <<>>
    /\ kpc' = "done"
    /\ UNCHANGED <<kdir, kdir0, kmaps, kout, kseen>>

(***************************************************************************)
(* Jupiter_Corrector (jupiter_corrector.py).                                *)
(***************************************************************************)

\* The files the model directory is drawn from.
ModelNames ==
    {"Jupiter_UVW1.fits", "Jupiter_UVM2.fits", "Jupiter_UVW1_UVM2.fits",
     "Jupiter_V.fits", "Jupiter_UVW1.txt"}

\* The shapes of model data and of images.
Shapes == {<<10, 10>>, <<20, 20>>}

\* The filters a caller may request.
RequestedFilters == {"UVW1", "UVM2", "uvw1"}

\* if "UVW1" in file: ... elif "UVM2" in file: ... else: continue
ModelFilter(file) ==
    IF Contains(file, "UVW1") THEN "UVW1"
    ELSE IF Contains(file, "UVM2") THEN "UVM2"
    ELSE "none"

\* The files of the model directory that _load_models takes in.
LoadedFiles(dir) ==
    {f \in DOMAIN dir : EndsWith(f, ".fits") /\ ModelFilter(f) /= "none"}

\* key = (filtro, data.shape)
ModelKey(dir, f) == <<ModelFilter(f), dir[f]>>

\* The dictionaries _load_models may return: a later file of the same key
\* replaces an earlier one, in the order of os.listdir.
LoadModels(dir) ==
    LET keys == {ModelKey(dir, f) : f \in LoadedFiles(dir)}
    IN  {d \in [keys -> LoadedFiles(dir)] : \A k \in keys : ModelKey(dir, d[k]) = k}

\* The lookup by shape alone: a model of another filter is taken.
FindModelOfShape(models, filtro, image_shape) ==
    IF \E k \in DOMAIN models : k[2] = image_shape
    THEN models[CHOOSE k \in DOMAIN models : k[2] = image_shape]
    ELSE "none"

\* self.models.get((self.filtro, image_shape), None)
FindBestModel(models, filtro, image_shape) ==
    IF <<filtro, image_shape>> \in DOMAIN models
    THEN models[<<filtro, image_shape>>]
    ELSE "none"

\* Jupiter_Corrector.__init__ up to self.models = self._load_models()
CorrectorLoad ==
    /\ jpc = "init"
    /\ jmodels' \in LoadModels(jmodeldir)
    /\ jpc' = "loaded"
    /\ UNCHANGED <<jmodeldir, jfiltro, jshape, joutput, jused>>

\* Jupiter_Corrector.correct_image, called by __init__
CorrectImage ==
    /\ jpc = "loaded"
    /\ LET model == FindBestModel(jmodels, jfiltro, jshape)
       IN  IF model = "none"
           THEN /\ jpc' = "raised"
                /\ UNCHANGED <<joutput, jused>>
           ELSE /\ jused' = model
                /\ joutput' = "corrected"
                /\ jpc' = "done"
    /\ UNCHANGED <<jmodeldir, jfiltro, jshape, jmodels>>

(***************************************************************************)
(* Download.baixar_observacoes (get_data.py).                               *)
(***************************************************************************)

\* The largest number of rows in the selected range of the catalogue.
MaxRows == 3

\* The observation ids of the catalogue.
CatalogIds == {7, 12}

\* str(obsid).zfill(10)
ObsidWidth == 10
ObsidStr(obsid) == ZFill(IntToStr(obsid), ObsidWidth)

\* A directory and a file of the destination directory.
DirEntry(name) == [name |-> name, isdir |-> TRUE]
FileEntry(name) == [name |-> name, isdir |-> FALSE]

\* What the destination directory may hold when the download starts.
DestEntries ==
    {DirEntry("0000000007"), FileEntry("0000000007.tar.gz"),
     FileEntry("0000000012.tar.gz"), DirEntry("12"),
     FileEntry("log_download.txt")}

\* tars_existentes = {f.split(".")[0] for f in listdir if f.endswith(".tar.gz")}
TarsExistentes(dest) ==
    {SplitHead(e.name, ".") : e \in {x \in dest : EndsWith(x.name, ".tar.gz")}}

\* pastas_existentes = {d for d in listdir if os.path.isdir(...)}
PastasExistentes(dest) == {e.name : e \in {x \in dest : x.isdir}}

\* The directory or the archive of the id is in the destination directory.
Present(dest, obsid_str) ==
    \/ DirEntry(obsid_str) \in dest
    \/ FileEntry(obsid_str \o ".tar.gz") \in dest

\* What datetime.now().strftime("%Y%m%d_%H%M%S") gives when Download is made.
Timestamps == {"20250304_101500", "20250304_101501"}

\* Download.__init__: log_download.txt, or log_download_<timestamp>.txt when
\* log_download.txt is in the destination directory.
LogFile(dest, timestamp) ==
    IF \E e \in dest : e.name = "log_download.txt"
    THEN "log_download_" \o timestamp \o ".txt"
    ELSE "log_download.txt"

\* escrever_log: open(self.log_file, "a") leaves the log file in the
\* destination directory; a failure to write is caught and the directory is
\* as it was.
escrever_log(dest) == {dest \cup {FileEntry(glogfile)}, dest}

\* baixar_observacoes up to the loop: the row range and the ids to skip.
DownloadBegin ==
    /\ gpc = "ready"
    /\ gskip' = TarsExistentes(gdest) \cup PastasExistentes(gdest)
    /\ gidx' = 1
    /\ gpc' = "loop"
    /\ UNCHANGED <<gcat, gdest, gcalls, glogfile, godf, gremove, gtodo>>

\* if obsid_str in obsids_a_pular: escrever_log(...); continue -- the set is
\* the one computed before the loop.
DownloadSkip ==
    /\ gpc = "loop" /\ gidx <= Len(gcat)
    /\ ObsidStr(gcat[gidx]) \in gskip
    /\ gdest' \in escrever_log(gdest)
    /\ gidx' = gidx + 1
    /\ UNCHANGED <<gcat, gskip, gpc, gcalls, glogfile, godf, gremove, gtodo>>

\* subprocess.run('./aioclient -L "GET obsno=..." -O destination', check=True,
\* cwd=aioclient_path): a successful client leaves the archive of the id in
\* the destination directory; CalledProcessError is caught and logged, and the
\* loop goes on. Without the directory aioclient_path the call raises
\* FileNotFoundError before the client runs: it is not caught and leaves
\* baixar_observacoes.
DownloadInvoke ==
    /\ gpc = "loop" /\ gidx <= Len(gcat)
    /\ ObsidStr(gcat[gidx]) \notin gskip
    /\ \E r \in {"ok", "failed", "raised"} :
        IF r = "raised"
        THEN /\ gpc' = "raised"
             /\ UNCHANGED <<gdest, gidx, gcalls>>
        ELSE /\ gcalls' = Append(gcalls, [obsid   |-> ObsidStr(gcat[gidx]),
                                          ok      |-> r = "ok",
                                          present |-> Present(gdest, ObsidStr(gcat[gidx]))])
             /\ gdest' \in escrever_log(IF r = "ok"
                                        THEN gdest \cup {FileEntry(ObsidStr(gcat[gidx]) \o ".tar.gz")}
                                        ELSE gdest)
             /\ gidx' = gidx + 1
             /\ gpc' = gpc
    /\ UNCHANGED <<gcat, gskip, glogfile, godf, gremove, gtodo>>

\* The rows are exhausted.
DownloadEnd ==
    /\ gpc = "loop" /\ gidx > Len(gcat)
    /\ gpc' = "done"
    /\ UNCHANGED <<gcat, gdest, gskip, gidx, gcalls, glogfile, godf, gremove, gtodo>>

(***************************************************************************)
(* Extract.extract_and_organize (get_data.py), called on the destination   *)
(* directory after the download.                                            *)
(***************************************************************************)

\* log_message: open(self.log_file, "a") leaves extract_log.txt in the
\* directory.
log_message(dest) == dest \cup {FileEntry("extract_log.txt")}

\* for filename in os.listdir(self.directory): if filename.endswith(".tar.gz")
\* -- the archives of the listing, which is made once; the other entries are
\* passed over.
ExtractBegin ==
    /\ gpc = "done"
    /\ gtodo' = {e.name : e \in {x \in gdest : EndsWith(x.name, ".tar.gz")}}
    /\ gpc' = "extract"
    /\ UNCHANGED <<gcat, gdest, gskip, gidx, gcalls, glogfile, godf, gremove>>

\* What a call of log_message that raises leaves: open(self.log_file, "a")
\* raised and the directory is as it was, or it made extract_log.txt and the
\* write raised.
log_message_raised(dest) == {dest, log_message(dest)}

\* if os.path.exists(extract_dir): log_message(...); continue -- inside the
\* try: an exception of the log write is caught and logged by the except
\* clause of line 162, and leaves extract_and_organize when that write raises
\* too.
ExtractSkip ==
    /\ gpc = "extract"
    /\ \E filename \in gtodo :
        /\ \E e \in gdest : e.name = SplitHead(filename, ".")
        /\ gtodo' = gtodo \ {filename}
        /\ \E logged \in BOOLEAN :
            IF logged
            THEN gdest' = log_message(gdest) /\ gpc' = gpc
            ELSE gdest' \in log_message_raised(gdest) /\ gpc' = "raised"
    /\ UNCHANGED <<gcat, gskip, gidx, gcalls, glogfile, godf, gremove>>

\* The directory after the statements of the try that were carried out:
\* os.makedirs(extract_dir) (made), os.remove of the archive (removed).
Extracted(dest, filename, made, removed) ==
    (dest \cup (IF made THEN {DirEntry(SplitHead(filename, "."))} ELSE {}))
        \ (IF removed THEN {FileEntry(filename)} ELSE {})

\* os.makedirs(extract_dir) (made); tarfile.open(...).extractall(extract_dir);
\* the directory odf is made and the extracted files are moved into it
\* (moved); the archive is removed when remove_tar (removed; remove_tar_file:
\* a failure of os.remove is caught). All is done and logged (ok); or a statement raises, a log
\* write included, after any part of this was done, and the except clause of
\* line 162 logs it (caught); or the log write of the except clause raises
\* too and leaves extract_and_organize, with extract_log.txt made or not
\* (raised).
ExtractArchive ==
    /\ gpc = "extract"
    /\ \E filename \in gtodo :
        /\ ~\E e \in gdest : e.name = SplitHead(filename, ".")
        /\ gtodo' = gtodo \ {filename}
        /\ \E r \in {"ok", "caught", "raised"},
              made \in BOOLEAN, moved \in BOOLEAN, removed \in BOOLEAN :
            /\ moved => made
            /\ removed => (moved /\ gremove)
            /\ r = "ok" => moved
            /\ godf' = IF moved THEN godf \cup {SplitHead(filename, ".")} ELSE godf
            /\ IF r = "raised"
               THEN /\ gdest' \in log_message_raised(Extracted(gdest, filename, made, removed))
                    /\ gpc' = "raised"
               ELSE /\ gdest' = log_message(Extracted(gdest, filename, made, removed))
                    /\ gpc' = gpc
    /\ UNCHANGED <<gcat, gskip, gidx, gcalls, glogfile, gremove>>

\* The listing is exhausted.
ExtractEnd ==
    /\ gpc = "extract" /\ gtodo = {}
    /\ gpc' = "extracted"
    /\ UNCHANGED <<gcat, gdest, gskip, gidx, gcalls, glogfile, godf, gremove, gtodo>>

(***************************************************************************)
(* OMAttBatchProcessor and OMAttRunner (omatt.py).                          *)
(***************************************************************************)

\* The file names a work directory of the batch processor is drawn from: the
\* corrected images of two exposures with their source lists and catalogs, a
\* second source list of the first exposure, a source list of another
\* observation, and a corrected image whose observation id has nine digits.
OMAttNames ==
    { "P0000000001OMS001FIMAG_0000_jpiter_filtred.FIT",
      "P0000000001OMS001SWSRLI0000.FIT",
      "P0000000001OMS001SWSRLI1000.FIT",
      "I0000000001OMS001USNO0000.FIT",
      "P0000000001OMS002IMAGE_1000_jpiter_filtred.FIT",
      "P0000000001OMS002SWSRLI0000.FIT",
      "I0000000001OMS002USNO0000.FIT",
      "P0000000002OMS001SWSRLI0000.FIT",
      "P000000001OMS001FIMAG_0000_jpiter_filtred.FIT" }

\* The pattern P([0-9]{10})(OMS[0-9]{3}) matches s at position i.
RegexAt(s, i) ==
    /\ i + 16 <= Len(s)
    /\ Char(s, i) = "P"
    /\ \A k \in 1..10 : IsDigit(Char(s, i + k))
    /\ SubSeq(s, i + 11, i + 13) = "OMS"
    /\ \A k \in 14..16 : IsDigit(Char(s, i + k))

\* re.search(r'P([0-9]{10})(OMS[0-9]{3})', s): the groups of the leftmost
\* match, <<>> for None.
RegexSearch(s) ==
    LET at == {i \in 1..Len(s) : RegexAt(s, i)}
    IN  IF at = {} THEN <<>>
        ELSE LET i == CHOOSE x \in at : \A y \in at : x <= y
             IN  <<SubSeq(s, i + 1, i + 10), SubSeq(s, i + 11, i + 16)>>

\* A source-list pattern that leaves the exposure out.
SrlPatternAnyExposure(obsid, exposure_id) == "P" \o obsid \o "*SWSRLI*.FIT"

\* f'P{obsid}{exposure_id}*SWSRLI*.FIT'
SrlPattern(obsid, exposure_id) == "P" \o obsid \o exposure_id \o "*SWSRLI*.FIT"

\* f'I{obsid}{exposure_id}*USNO*.FIT'
CatPattern(obsid, exposure_id) == "I" \o obsid \o exposure_id \o "*USNO*.FIT"

\* base, ext = os.path.splitext(image_filename); f"{base}_rotated_WCS{ext}"
PpsoswsetFile(image_filename) ==
    SplitExt(image_filename)[1] \o "_rotated_WCS" \o SplitExt(image_filename)[2]

\* The lists glob.glob may return for a set of names: the names in any order.
GlobOrders(S) ==
    {q \in [1..Cardinality(S) -> S] : \A i, j \in 1..Cardinality(S) : q[i] = q[j] => i = j}

\* _find_and_pair_files up to its loop: the candidate images are globbed, and
\* FileNotFoundError leaves run when there is none.
FindBegin ==
    /\ apc = "ready"
    /\ LET target_images == Glob(adir, "*_jpiter_filtred.FIT")
       IN  IF target_images = {}
           THEN /\ apc' = "raised"
                /\ UNCHANGED atargets
           ELSE /\ atargets' \in GlobOrders(target_images)
                /\ apc' = "find"
    /\ UNCHANGED <<adir, accf, asets, aidx, acalls>>

\* One image of `for image_path in target_images`: without a match of the
\* pattern, without a source list or without a catalog it is passed over;
\* else its record is appended, with the first file of each glob.
FindNext ==
    /\ apc = "find"
    /\ atargets /= <<>>
    /\ atargets' = Tail(atargets)
    /\ LET image_filename == Head(atargets)
           match == RegexSearch(image_filename)
       IN  IF match = <<>>
           THEN UNCHANGED asets
           ELSE LET candidate_srl_files == Glob(adir, SrlPattern(match[1], match[2]))
                    cat_files == Glob(adir, CatPattern(match[1], match[2]))
                IN  IF candidate_srl_files = {} \/ cat_files = {}
                    THEN UNCHANGED asets
                    ELSE \E sourcelist_file \in candidate_srl_files :
                         \E catfile_path \in cat_files :
                            asets' = Append(asets,
                                [set_file |-> image_filename,
                                 sourcelistset_file |-> sourcelist_file,
                                 catfile_path |-> catfile_path,
                                 ppsoswset_file |-> PpsoswsetFile(image_filename)])
    /\ UNCHANGED <<adir, accf, aidx, acalls, apc>>

\* _find_and_pair_files returns; run sets SAS_CCF, and returns when there is
\* no record.
FindEnd ==
    /\ apc = "find"
    /\ atargets = <<>>
    /\ accf' = "work"
    /\ aidx' = 1
    /\ apc' = IF asets = <<>> THEN "returned" ELSE "loop"
    /\ UNCHANGED <<adir, atargets, asets, acalls>>

\* The failure of a record leaves run.
RaiseOnFailure(result) == IF result = "ok" THEN "loop" ELSE "raised"

\* try: runner.run() except Exception: log; continue
AfterRecord(result) == "loop"

\* One record of the loop of run: OMAttRunner(...).run() invokes omatt, which
\* returns, or raises CalledProcessError (logged and raised again by the
\* runner) or another exception (that passes through the runner).
OmattInvoke ==
    /\ apc = "loop"
    /\ aidx <= Len(asets)
    /\ \E result \in {"ok", "CalledProcessError", "Exception"} :
        /\ acalls' = Append(acalls, [set |-> asets[aidx], ccf |-> accf,
                                     result |-> result])
        /\ apc' = AfterRecord(result)
    /\ aidx' = aidx + 1
    /\ UNCHANGED <<adir, accf, atargets, asets>>

\* The loop of run is exhausted.
OmattEnd ==
    /\ apc = "loop"
    /\ aidx > Len(asets)
    /\ apc' = "returned"
    /\ UNCHANGED <<adir, accf, atargets, asets, aidx, acalls>>

(***************************************************************************)
(* running_Sextractor (SExtractor.py).                                      *)
(***************************************************************************)

\* padroes
padroes == << "*_combined_UVM2_UVW1.fits",
              "*_UVW1_jupiter_filtred_MOSAIC.FIT",
              "P*RSIMAGM*.FIT" >>

\* The names a target directory may hold: one for each pattern, one that
\* two patterns match, two that bear a marker, one that no pattern matches.
SexNames == { "P1_combined_UVM2_UVW1.fits",
              "P1_UVW1_jupiter_filtred_MOSAIC.FIT",
              "P1OMS0RSIMAGM0.FIT",
              "P1RSIMAGM_UVW1_jupiter_filtred_MOSAIC.FIT",
              "P1OMS0RSIMAGM0_segmentation_map.FIT",
              "P1OMS0RSIMAGM0_masked.FIT",
              "P1_UVM2_jupiter_filtred_MOSAIC.FIT" }

\* The paths a target directory may have.
SexDirNames == {"obs/work", "obs_masked/work"}

\* The largest number of files of a target directory.
MaxSexDir == 3

\* The marker looked for in the base name of the file only.
MarkedBaseName(dirname, name) ==
    Contains(name, "_segmentation_map") \/ Contains(name, "_masked")

\* '_segmentation_map' in arquivo_entrada or '_masked' in arquivo_entrada,
\* where arquivo_entrada is os.path.join(diretorio_alvo, name) as glob
\* returns it.
Marked(dirname, name) ==
    \/ Contains(dirname \o "/" \o name, "_segmentation_map")
    \/ Contains(dirname \o "/" \o name, "_masked")

\* arquivo_saida = f"{base}_segmentation_map{ext}"
SegmentationName(name) ==
    SplitExt(name)[1] \o "_segmentation_map" \o SplitExt(name)[2]

\* if not os.path.isdir(...): return; if not os.path.isfile(config_file):
\* return; otherwise the loop over padroes starts.
SexBegin ==
    /\ spc = "ready"
    /\ spc' = IF sconfig THEN "glob" ELSE "done"
    /\ UNCHANGED <<sdirname, sdir, sdir0, sconfig, spat, sfiles, scalls>>

\* for arquivo_entrada in glob.glob(caminho_busca): the glob of the current
\* pattern is evaluated when its loop starts.
SexGlob ==
    /\ spc = "glob"
    /\ sfiles' \in Orderings(Glob(sdir, padroes[spat]))
    /\ spc' = "loop"
    /\ UNCHANGED <<sdirname, sdir, sdir0, sconfig, spat, scalls>>

\* if '_segmentation_map' in arquivo_entrada or '_masked' in ...: continue
SexSkipMarked ==
    /\ spc = "loop" /\ sfiles /= <<>>
    /\ Marked(sdirname, Head(sfiles))
    /\ sfiles' = Tail(sfiles)
    /\ UNCHANGED <<sdirname, sdir, sdir0, sconfig, spat, scalls, spc>>

\* subprocess.run(command, check=True, ...): the detector writes the
\* segmentation map ("ok"), exits with a non-zero status, which is caught
\* ("nonzero"), or cannot be started, which raises FileNotFoundError
\* ("noexec").
SexInvoke ==
    /\ spc = "loop" /\ sfiles /= <<>>
    /\ ~Marked(sdirname, Head(sfiles))
    /\ \E result \in {"ok", "nonzero", "noexec"} :
        /\ scalls' = Append(scalls, [file |-> Head(sfiles),
                                     out |-> SegmentationName(Head(sfiles)),
                                     result |-> result])
        /\ sdir' = IF result = "ok"
                   THEN sdir \cup {SegmentationName(Head(sfiles))} ELSE sdir
        /\ IF result = "noexec"
           THEN spc' = "raised" /\ UNCHANGED sfiles
           ELSE sfiles' = Tail(sfiles) /\ UNCHANGED spc
    /\ UNCHANGED <<sdirname, sdir0, sconfig, spat>>

\* The glob of the current pattern is exhausted: the next pattern, or the
\* end of the function.
SexNextPattern ==
    /\ spc = "loop" /\ sfiles = <<>>
    /\ IF spat < Len(padroes)
       THEN spat' = spat + 1 /\ spc' = "glob"
       ELSE spc' = "done" /\ UNCHANGED spat
    /\ UNCHANGED <<sdirname, sdir, sdir0, sconfig, sfiles, scalls>>

(***************************************************************************)
(* sincronizar_wcs_de_fits (check_fits.py).                                 *)
(***************************************************************************)

\* parametros_wcs
parametros_wcs == << "CRPIX1", "CRVAL1", "CDELT1", "CRPIX2", "CRVAL2", "CDELT2" >>

WcsKeywords == {parametros_wcs[i] : i \in DOMAIN parametros_wcs}

\* The values a WCS keyword may have, and the number of calls in a row.
MaxWcsValue == 2
MaxWcsCalls == 2

\* What the header of the reference may hold for FILTER.
WcsFilters == { <<>>, <<"UVW1">>, <<" uvw1 ">>, <<"UVM2">> }

\* The headers with the keywords of `present`, where the keywords of `free`
\* have any value and the others the value 1.
HeadersOver(present, free) ==
    {h \in [present -> 1..MaxWcsValue] : \A k \in present \ free : h[k] = 1}

\* The WCS keywords of a reference: all six, or all but one; CRPIX1 varies.
WcsReferences ==
    UNION {HeadersOver(WcsKeywords \ gone, {"CRPIX1"}) :
              gone \in {{}} \cup {{k} : k \in WcsKeywords}}

\* The headers of a target: another keyword and all six WCS keywords or all
\* but one; CRPIX1 and CDELT2 vary.
WcsTargets ==
    UNION {HeadersOver((WcsKeywords \ gone) \cup {"EXPOSURE"}, {"CRPIX1", "CDELT2"}) :
              gone \in {{}} \cup {{k} : k \in WcsKeywords}}

\* The reference passes the tests of lines 48-68: it has FILTER, the value
\* stripped and upper-cased is UVW1, and it has the six keywords.
ReferenceAccepted(filter, header) ==
    /\ filter /= <<>>
    /\ Upper(Strip(filter[1])) = "UVW1"
    /\ WcsKeywords \subseteq DOMAIN header

\* precisa_atualizar after the loop of lines 76-85.
precisa_atualizar(header_destino, valores_origem) ==
    \E param \in WcsKeywords :
        \/ param \notin DOMAIN header_destino
        \/ header_destino[param] /= valores_origem[param]

\* The header of the target with only the keywords of axis 1 copied.
SynchronizedAxis1(header_destino, valores_origem) ==
    [k \in DOMAIN header_destino \cup {"CRPIX1", "CRVAL1", "CDELT1"} |->
        IF k \in {"CRPIX1", "CRVAL1", "CDELT1"}
        THEN valores_origem[k] ELSE header_destino[k]]

\* header_destino after the loop of lines 76-85: a keyword that is missing
\* or different is assigned the value of the reference.
Synchronized(header_destino, valores_origem) ==
    [k \in DOMAIN header_destino \cup WcsKeywords |->
        IF k \in WcsKeywords THEN valores_origem[k] ELSE header_destino[k]]

\* if not arquivos_origem: return; if not arquivos_destino: return
WcsNoFile ==
    /\ wpc = "ready" /\ Len(wlog) < MaxWcsCalls
    /\ ~worigem \/ ~wdestino
    /\ wlog' = Append(wlog, "nofile")
    /\ UNCHANGED <<worigem, wdestino, wfilter, wheader, wtarget, wtarget0, wpc>>

\* The returns of lines 48-68: no FILTER, another filter than UVW1, or a
\* KeyError for one of the six keywords; the target is not opened.
WcsNoAction ==
    /\ wpc = "ready" /\ Len(wlog) < MaxWcsCalls
    /\ worigem /\ wdestino
    /\ ~ReferenceAccepted(wfilter, wheader)
    /\ wlog' = Append(wlog, "noaction")
    /\ UNCHANGED <<worigem, wdestino, wfilter, wheader, wtarget, wtarget0, wpc>>

\* Lines 71-92: the target is opened in update mode, compared and assigned;
\* it is flushed when precisa_atualizar.
WcsSynchronize ==
    /\ wpc = "ready" /\ Len(wlog) < MaxWcsCalls
    /\ worigem /\ wdestino
    /\ ReferenceAccepted(wfilter, wheader)
    /\ IF precisa_atualizar(wtarget, wheader)
       THEN /\ wtarget' = Synchronized(wtarget, wheader)
            /\ wlog' = Append(wlog, "flushed")
       ELSE /\ wtarget' = wtarget
            /\ wlog' = Append(wlog, "same")
    /\ UNCHANGED <<worigem, wdestino, wfilter, wheader, wtarget0, wpc>>

(***************************************************************************)
(* The names the stages give to their outputs.                              *)
(***************************************************************************)

\* The names of the products of the reduction: P<obsid>OMS<exposure><kind>.FIT
NameObsids == {"0000000001", "0123456789"}
NameExposures == {"001", "013", "402"}
NameKinds == {"FIMAG_0000", "IMAGE_0000", "IMAGE_1000", "SIMAGE1000", "RSIMAGM000"}

ReductionNames ==
    {"P" \o o \o "OMS" \o e \o k \o ".FIT" :
        o \in NameObsids, e \in NameExposures, k \in NameKinds}

\* patterns_to_find of RunOmichain.run
patterns_to_find == << "P*FIMAG_0000.FIT", "P*IMAGE_0000.FIT", "P*IMAGE_1000.FIT" >>

\* The suffix put after the extension.
CorrectorSuffixLast(image_path) == image_path \o "_jpiter_filtred"

\* Jupiter_Corrector.__init__: f"{base_name}_jpiter_filtred{extension}"
CorrectorOutputPath(image_path) ==
    SplitExt(image_path)[1] \o "_jpiter_filtred" \o SplitExt(image_path)[2]

\* The files the mosaic builder takes: the stacked frames of its glob, or
\* the names find_images_for_hybrid_mosaic keeps, which are the corrected
\* file and the SIMAGE1000 companions of the other exposures; the list is
\* sorted, so a companion can be the first name, the one get_obsid reads.
MosaicInput(name) ==
    \/ FnMatch(name, "P*FIMAG*jpiter_filtred_rotated_WCS.FIT")
    \/ /\ Contains(name, "jpiter_filtred")
       /\ Contains(name, "rotated_WCS")
       /\ Contains(name, "IMAGE_1000")
    \/ Contains(name, "SIMAGE1000")

Named(stage, input, output) ==
    /\ npc = "ready"
    /\ nname' = output
    /\ nlog' = Append(nlog, [stage |-> stage, input |-> input, output |-> output])
    /\ UNCHANGED npc

\* The stray-light corrector on a file of patterns_to_find.
NameCorrector ==
    /\ \E i \in DOMAIN patterns_to_find : FnMatch(nname, patterns_to_find[i])
    /\ Named("corrector", nname, CorrectorOutputPath(nname))

\* The astrometric matcher on a file *_jpiter_filtred.FIT.
NameMatcher ==
    /\ FnMatch(nname, "*_jpiter_filtred.FIT")
    /\ Named("matcher", nname, PpsoswsetFile(nname))

\* The mosaic builder on a list that starts with the file, for a filter.
NameMosaic ==
    /\ MosaicInput(nname)
    /\ \E filter_name \in {"UVW1", "UVM2"} :
          Named("mosaic", nname, OutputName(<<nname>>, filter_name))

\* The band combiner on a pair whose first file is the file.
NameCombiner ==
    /\ FnMatch(nname, "P*_UVW1_jupiter_filtred_MOSAIC.FIT")
    /\ Named("combiner", nname, OutputFilename(nname))

\* The detection pass on a file of padroes in the directory `work`.
NameDetection ==
    /\ \E i \in DOMAIN padroes : FnMatch(nname, padroes[i])
    /\ ~Marked("work", nname)
    /\ Named("detection", nname, SegmentationName(nname))

\* The masking pass on a segmentation map: the output is named after the
\* image the map was made from.
NameMasking ==
    /\ FnMatch(nname, "*_segmentation_map.*")
    /\ Named("masking", OriginalName(nname), MaskedName(OriginalName(nname)))

(***************************************************************************)
(* The specifications.                                                      *)
(***************************************************************************)

CombinerIdle ==
    /\ cdir = {}
    /\ cpc = "idle"
    /\ cpairs = <<>>
    /\ cidx = 1
    /\ cwritten = {}

MosaicIdle ==
    /\ mfiles = {}
    /\ mhdr = <<>>
    /\ mpc = "idle"
    /\ original_dir = 0
    /\ images_by_filter = <<>>
    /\ target = 1
    /\ image_files = <<>>
    /\ mcalls = <<>>
    /\ msearches = 0
    /\ mcwd0 = 0

ImagesIdle ==
    /\ file1 = <<>> /\ file2 = <<>>
    /\ ipc = "idle"
    /\ combined = <<>>

MaskIdle ==
    /\ kdir = <<>> /\ kdir0 = <<>>
    /\ kmaps = <<>>
    /\ kpc = "idle"
    /\ kout = <<>>
    /\ kseen = <<>>

CorrectorIdle ==
    /\ jmodeldir = <<>> /\ jmodels = <<>>
    /\ jfiltro = "" /\ jshape = <<>>
    /\ jpc = "idle"
    /\ joutput = "absent" /\ jused = "none"

DownloadIdle ==
    /\ gcat = <<>> /\ gdest = {} /\ gskip = {}
    /\ gidx = 1
    /\ gpc = "idle"
    /\ gcalls = <<>>
    /\ glogfile = "" /\ godf = {} /\ gremove = FALSE /\ gtodo = {}

OMAttIdle ==
    /\ adir = {} /\ accf = "unset"
    /\ atargets = <<>> /\ asets = <<>>
    /\ aidx = 1
    /\ acalls = <<>>
    /\ apc = "idle"

SextractorIdle ==
    /\ sdirname = "" /\ sdir = {} /\ sdir0 = {}
    /\ sconfig = FALSE
    /\ spat = 1
    /\ sfiles = <<>>
    /\ scalls = <<>>
    /\ spc = "idle"

WcsIdle ==
    /\ worigem = FALSE /\ wdestino = FALSE
    /\ wfilter = <<>>
    /\ wheader = <<>> /\ wtarget = <<>> /\ wtarget0 = <<>>
    /\ wlog = <<>>
    /\ wpc = "idle"

NamesIdle ==
    /\ nname = ""
    /\ nlog = <<>>
    /\ npc = "idle"

ExtraIdle == ImagesIdle /\ MaskIdle /\ CorrectorIdle /\ DownloadIdle /\ OMAttIdle /\ SextractorIdle /\ WcsIdle /\ NamesIdle

DriverIdle ==
    /\ SAS_ODF = 0 /\ SAS_CCF = 0
    /\ work = <<>> /\ odf = <<>> /\ tar = <<>> /\ sas = <<>>
    /\ logfile = FALSE
    /\ remove_odf = FALSE /\ remove_tar = FALSE
    /\ processed_observations = <<>>
    /\ error_observations = <<>>
    /\ already_processed = <<>>
    /\ listing = [dirs |-> <<>>, files |-> {}] /\ idx = 1 /\ cur = 0 /\ odf_dir = "root"
    /\ pc = "idle"
    /\ current_dir = 0 /\ files_to_correct = 0 /\ runNo = 0
    /\ invoked = <<>> /\ modified = <<>> /\ outcome = <<>> /\ ranIn = <<>>
    /\ reached = <<>>

\* RunOmichain(directory, initsas_path, remove_odf, remove_tar) on a batch
\* root of NumObs observation directories, each with or without `work`, all
\* with `odf` or none, the first one with its archive beside it and the others
\* without, run up to MaxRuns times.
DriverInit ==
    /\ cwd = 0 /\ SAS_ODF = 0 /\ SAS_CCF = 0
    /\ work \in [Obs -> BOOLEAN]
    /\ odf \in {[o \in Obs |-> b] : b \in BOOLEAN}
    /\ tar = [o \in Obs |-> o = 1]
    /\ sas = [o \in Obs |-> FALSE]
    /\ logfile = FALSE
    /\ remove_odf \in BOOLEAN
    /\ remove_tar \in BOOLEAN
    /\ processed_observations = <<>>
    /\ error_observations = <<>>
    /\ already_processed = <<>>
    /\ listing = ListDir(tar, logfile)
    /\ idx = 1 /\ cur = 0 /\ odf_dir = "root"
    /\ pc = "loop"
    /\ current_dir = 0 /\ files_to_correct = 0 /\ runNo = 1
    /\ invoked = [o \in Obs |-> <<>>]
    /\ modified = [o \in Obs |-> FALSE]
    /\ outcome = [o \in Obs |-> "none"]
    /\ ranIn = [o \in Obs |-> 0]
    /\ reached = [o \in Obs |-> "no"]
    /\ MosaicIdle
    /\ CombinerIdle
    /\ ExtraIdle

DriverNext ==
    \/ SkipAlreadyProcessed /\ UNCHANGED <<mvars, cvars, xvars>>
    \/ BeginObservation /\ UNCHANGED <<mvars, cvars, xvars>>
    \/ MakeWork /\ UNCHANGED <<mvars, cvars, xvars>>
    \/ CopyInitsas /\ UNCHANGED <<mvars, cvars, xvars>>
    \/ UnpackTarFiles /\ UNCHANGED <<mvars, cvars, xvars>>
    \/ UpdateInitsasScript /\ UNCHANGED <<mvars, cvars, xvars>>
    \/ RunInitsas /\ UNCHANGED <<mvars, cvars, xvars>>
    \/ FindSasFile /\ UNCHANGED <<mvars, cvars, xvars>>
    \/ RunCommandsEnter /\ UNCHANGED <<mvars, cvars, xvars>>
    \/ Sasver /\ UNCHANGED <<mvars, cvars, xvars>>
    \/ Omichain /\ UNCHANGED <<mvars, cvars, xvars>>
    \/ CorrectFile /\ UNCHANGED <<mvars, cvars, xvars>>
    \/ CorrectDone /\ UNCHANGED <<mvars, cvars, xvars>>
    \/ RunOMAtt /\ UNCHANGED <<mvars, cvars, xvars>>
    \/ OmattTasks /\ UNCHANGED <<mvars, cvars, xvars>>
    \/ RunSyncWcs /\ UNCHANGED <<mvars, cvars, xvars>>
    \/ RunBuildMosaic /\ UNCHANGED <<mrest, cvars, xvars>>
    \/ OmmosaicTasks /\ UNCHANGED <<mrest, cvars, xvars>>
    \/ RunCombiner /\ UNCHANGED <<mvars, cvars, xvars>>
    \/ RunSextractor /\ UNCHANGED <<mvars, cvars, xvars>>
    \/ RunApplyMask /\ UNCHANGED <<mvars, cvars, xvars>>
    \/ RemoveOdfDirectory /\ UNCHANGED <<mvars, cvars, xvars>>
    \/ RemoveTarFile /\ UNCHANGED <<mvars, cvars, xvars>>
    \/ StartRun /\ UNCHANGED <<mvars, cvars, xvars>>

Spec == DriverInit /\ [][DriverNext]_vars

\* UVImageCombiner(directory) on a directory of at most MaxCombDir files.
CombinerInit ==
    /\ cdir \in {d \in SUBSET CombinerNames : Cardinality(d) <= MaxCombDir}
    /\ cpc = "ready"
    /\ cpairs = <<>>
    /\ cidx = 1
    /\ cwritten = {}
    /\ cwd = 0
    /\ DriverIdle
    /\ MosaicIdle
    /\ ExtraIdle

CombinerNext ==
    \/ GetMatchingPairs /\ UNCHANGED <<cwd, dvars, mvars, xvars>>
    \/ CombinerNoPairs /\ UNCHANGED <<cwd, dvars, mvars, xvars>>
    \/ CombinerNextPair /\ UNCHANGED <<cwd, dvars, mvars, xvars>>
    \/ CombinerReturn /\ UNCHANGED <<cwd, dvars, mvars, xvars>>

SpecCombiner == CombinerInit /\ [][CombinerNext]_vars

\* Build_Mosaic(directory).create_new_mosaic() on a `work` directory of at
\* most MaxMosaicDir files, called from the start directory, from the `work`
\* directory itself or from another observation's.
MosaicInit ==
    /\ mfiles \in {d \in SUBSET MosaicNames : Cardinality(d) <= MaxMosaicDir}
    /\ mhdr \in [mfiles -> HeaderValues]
    /\ mpc = "ready"
    /\ cwd \in {0, MosaicObs, MosaicObs + 1}
    /\ mcwd0 = cwd
    /\ original_dir = 0
    /\ images_by_filter = <<>>
    /\ target = 1
    /\ image_files = <<>>
    /\ mcalls = <<>>
    /\ msearches = 0
    /\ DriverIdle
    /\ CombinerIdle
    /\ ExtraIdle

MosaicNext ==
    \/ MosaicDetect /\ UNCHANGED <<dvars, cvars, xvars>>
    \/ MosaicStackedRun /\ UNCHANGED <<dvars, cvars, xvars>>
    \/ MosaicStackedEnd /\ UNCHANGED <<dvars, cvars, xvars>>
    \/ MosaicHybridFind /\ UNCHANGED <<dvars, cvars, xvars>>
    \/ MosaicHybridRun /\ UNCHANGED <<dvars, cvars, xvars>>
    \/ MosaicHybridEnd /\ UNCHANGED <<dvars, cvars, xvars>>

SpecMosaic == MosaicInit /\ [][MosaicNext]_vars

OldIdle == cwd = 0 /\ DriverIdle /\ MosaicIdle /\ CombinerIdle

\* combine_two_images on two images of NPix pixels each.
ImagesInit ==
    /\ file1 \in [data : [1..NPix -> PixelValues], header : {"header1"}]
    /\ file2 \in [data : [1..NPix -> PixelValues], header : {"header2"}]
    /\ ipc = "ready"
    /\ combined = <<>>
    /\ OldIdle
    /\ MaskIdle
    /\ CorrectorIdle
    /\ DownloadIdle
    /\ OMAttIdle
    /\ SextractorIdle
    /\ WcsIdle
    /\ NamesIdle

ImagesNext == CombineTwoImages /\ UNCHANGED <<oldvars, kvars, jvars, gvars, avars, svars, wvars, nvars>>

SpecImages == ImagesInit /\ [][ImagesNext]_vars

\* apply_segmentation_mask on a directory with up to two segmentation maps
\* and their images: the pair A with any data, the pair B with uniform data.
MaskInit ==
    /\ \E a \in ImageContents \cup {<<>>}, aseg \in SegContents \cup {<<>>},
          b \in UniformImages \cup {<<>>}, bseg \in UniformSegs \cup {<<>>} :
          kdir = DirOf(a, aseg, b, bseg)
    /\ kdir0 = kdir
    /\ kmaps = <<>>
    /\ kpc = "ready"
    /\ kout = <<>>
    /\ kseen = <<>>
    /\ OldIdle
    /\ ImagesIdle
    /\ CorrectorIdle
    /\ DownloadIdle
    /\ OMAttIdle
    /\ SextractorIdle
    /\ WcsIdle
    /\ NamesIdle

MaskNext ==
    \/ MaskBegin /\ UNCHANGED <<oldvars, ivars, jvars, gvars, avars, svars, wvars, nvars>>
    \/ MaskSkipMissing /\ UNCHANGED <<oldvars, ivars, jvars, gvars, avars, svars, wvars, nvars>>
    \/ MaskSkipShape /\ UNCHANGED <<oldvars, ivars, jvars, gvars, avars, svars, wvars, nvars>>
    \/ MaskApply /\ UNCHANGED <<oldvars, ivars, jvars, gvars, avars, svars, wvars, nvars>>
    \/ MaskEnd /\ UNCHANGED <<oldvars, ivars, jvars, gvars, avars, svars, wvars, nvars>>

SpecMask == MaskInit /\ [][MaskNext]_vars

\* Jupiter_Corrector(image_path, filtro) with any model directory, for an
\* image of either shape, with or without a file at the output path.
CorrectorInit ==
    /\ jmodeldir \in UNION {[d -> Shapes] : d \in SUBSET ModelNames}
    /\ jfiltro \in RequestedFilters
    /\ jshape \in Shapes
    /\ jmodels = <<>>
    /\ jpc = "init"
    /\ joutput \in {"absent", "old"}
    /\ jused = "none"
    /\ OldIdle
    /\ ImagesIdle
    /\ MaskIdle
    /\ DownloadIdle
    /\ OMAttIdle
    /\ SextractorIdle
    /\ WcsIdle
    /\ NamesIdle

CorrectorNext ==
    \/ CorrectorLoad /\ UNCHANGED <<oldvars, ivars, kvars, gvars, avars, svars, wvars, nvars>>
    \/ CorrectImage /\ UNCHANGED <<oldvars, ivars, kvars, gvars, avars, svars, wvars, nvars>>

SpecCorrector == CorrectorInit /\ [][CorrectorNext]_vars

\* Download.baixar_observacoes over a range of at most MaxRows rows.
DownloadInit ==
    /\ gcat \in UNION {[1..n -> CatalogIds] : n \in 1..MaxRows}
    /\ gdest \in SUBSET DestEntries
    /\ gskip = {}
    /\ gidx = 1
    /\ gpc = "ready"
    /\ gcalls = <<>>
    /\ \E timestamp \in Timestamps : glogfile = LogFile(gdest, timestamp)
    /\ godf = {}
    /\ gremove \in BOOLEAN
    /\ gtodo = {}
    /\ OldIdle
    /\ ImagesIdle
    /\ MaskIdle
    /\ CorrectorIdle
    /\ OMAttIdle
    /\ SextractorIdle
    /\ WcsIdle
    /\ NamesIdle

DownloadNext ==
    \/ DownloadBegin /\ UNCHANGED <<oldvars, ivars, kvars, jvars, avars, svars, wvars, nvars>>
    \/ DownloadSkip /\ UNCHANGED <<oldvars, ivars, kvars, jvars, avars, svars, wvars, nvars>>
    \/ DownloadInvoke /\ UNCHANGED <<oldvars, ivars, kvars, jvars, avars, svars, wvars, nvars>>
    \/ DownloadEnd /\ UNCHANGED <<oldvars, ivars, kvars, jvars, avars, svars, wvars, nvars>>
    \/ ExtractBegin /\ UNCHANGED <<oldvars, ivars, kvars, jvars, avars, svars, wvars, nvars>>
    \/ ExtractSkip /\ UNCHANGED <<oldvars, ivars, kvars, jvars, avars, svars, wvars, nvars>>
    \/ ExtractArchive /\ UNCHANGED <<oldvars, ivars, kvars, jvars, avars, svars, wvars, nvars>>
    \/ ExtractEnd /\ UNCHANGED <<oldvars, ivars, kvars, jvars, avars, svars, wvars, nvars>>

SpecDownload == DownloadInit /\ [][DownloadNext]_vars

\* OMAttBatchProcessor(work_directory).run() on any directory of OMAttNames,
\* in a process whose SAS_CCF is unset or names another directory.
OMAttInit ==
    /\ adir \in SUBSET OMAttNames
    /\ accf \in {"unset", "other"}
    /\ atargets = <<>>
    /\ asets = <<>>
    /\ aidx = 1
    /\ acalls = <<>>
    /\ apc = "ready"
    /\ OldIdle
    /\ ImagesIdle
    /\ MaskIdle
    /\ CorrectorIdle
    /\ DownloadIdle
    /\ SextractorIdle
    /\ WcsIdle
    /\ NamesIdle

OMAttNext ==
    \/ FindBegin /\ UNCHANGED <<oldvars, ivars, kvars, jvars, gvars, svars, wvars, nvars>>
    \/ FindNext /\ UNCHANGED <<oldvars, ivars, kvars, jvars, gvars, svars, wvars, nvars>>
    \/ FindEnd /\ UNCHANGED <<oldvars, ivars, kvars, jvars, gvars, svars, wvars, nvars>>
    \/ OmattInvoke /\ UNCHANGED <<oldvars, ivars, kvars, jvars, gvars, svars, wvars, nvars>>
    \/ OmattEnd /\ UNCHANGED <<oldvars, ivars, kvars, jvars, gvars, svars, wvars, nvars>>

SpecOMAtt == OMAttInit /\ [][OMAttNext]_vars

\* running_Sextractor(diretorio_alvo) on any directory of up to MaxSexDir
\* of SexNames, at either path, with and without the configuration file.
SextractorInit ==
    /\ sdirname \in SexDirNames
    /\ sdir \in {d \in SUBSET SexNames : Cardinality(d) <= MaxSexDir}
    /\ sdir0 = sdir
    /\ sconfig \in BOOLEAN
    /\ spat = 1
    /\ sfiles = <<>>
    /\ scalls = <<>>
    /\ spc = "ready"
    /\ OldIdle
    /\ ImagesIdle
    /\ MaskIdle
    /\ CorrectorIdle
    /\ DownloadIdle
    /\ OMAttIdle
    /\ WcsIdle
    /\ NamesIdle

SextractorNext ==
    \/ SexBegin /\ UNCHANGED <<oldvars, ivars, kvars, jvars, gvars, avars, wvars, nvars>>
    \/ SexGlob /\ UNCHANGED <<oldvars, ivars, kvars, jvars, gvars, avars, wvars, nvars>>
    \/ SexSkipMarked /\ UNCHANGED <<oldvars, ivars, kvars, jvars, gvars, avars, wvars, nvars>>
    \/ SexInvoke /\ UNCHANGED <<oldvars, ivars, kvars, jvars, gvars, avars, wvars, nvars>>
    \/ SexNextPattern /\ UNCHANGED <<oldvars, ivars, kvars, jvars, gvars, avars, wvars, nvars>>

SpecSextractor == SextractorInit /\ [][SextractorNext]_vars

\* sincronizar_wcs_de_fits(diretorio), called up to MaxWcsCalls times on a
\* directory with or without a reference and a target.
WcsInit ==
    /\ worigem \in BOOLEAN
    /\ wdestino \in BOOLEAN
    /\ wfilter \in (IF worigem THEN WcsFilters ELSE {<<>>})
    /\ wheader \in (IF worigem THEN WcsReferences ELSE {<<>>})
    /\ wtarget \in (IF wdestino THEN WcsTargets ELSE {<<>>})
    /\ wtarget0 = wtarget
    /\ wlog = <<>>
    /\ wpc = "ready"
    /\ OldIdle
    /\ ImagesIdle
    /\ MaskIdle
    /\ CorrectorIdle
    /\ DownloadIdle
    /\ OMAttIdle
    /\ SextractorIdle
    /\ NamesIdle

WcsNext ==
    \/ WcsNoFile /\ UNCHANGED <<oldvars, ivars, kvars, jvars, gvars, avars, svars, nvars>>
    \/ WcsNoAction /\ UNCHANGED <<oldvars, ivars, kvars, jvars, gvars, avars, svars, nvars>>
    \/ WcsSynchronize /\ UNCHANGED <<oldvars, ivars, kvars, jvars, gvars, avars, svars, nvars>>

SpecWcs == WcsInit /\ [][WcsNext]_vars

\* A product of the reduction handed from stage to stage, each stage naming
\* its output.
NamesInit ==
    /\ nname \in ReductionNames
    /\ nlog = <<>>
    /\ npc = "ready"
    /\ OldIdle
    /\ ImagesIdle
    /\ MaskIdle
    /\ CorrectorIdle
    /\ DownloadIdle
    /\ OMAttIdle
    /\ SextractorIdle
    /\ WcsIdle

NamesNext ==
    \/ NameCorrector /\ UNCHANGED <<oldvars, ivars, kvars, jvars, gvars, avars, svars, wvars>>
    \/ NameMatcher /\ UNCHANGED <<oldvars, ivars, kvars, jvars, gvars, avars, svars, wvars>>
    \/ NameMosaic /\ UNCHANGED <<oldvars, ivars, kvars, jvars, gvars, avars, svars, wvars>>
    \/ NameCombiner /\ UNCHANGED <<oldvars, ivars, kvars, jvars, gvars, avars, svars, wvars>>
    \/ NameDetection /\ UNCHANGED <<oldvars, ivars, kvars, jvars, gvars, avars, svars, wvars>>
    \/ NameMasking /\ UNCHANGED <<oldvars, ivars, kvars, jvars, gvars, avars, svars, wvars>>

SpecNames == NamesInit /\ [][NamesNext]_vars

\* ---------------------------------------------------------------------
\* Properties of the batch driver (running_omichain.py), under Spec.
\* ---------------------------------------------------------------------

Count(o, list) == Cardinality({i \in DOMAIN list : list[i] = o})

InList(o, list) == Count(o, list) > 0

\* The run is over: it returned, or an exception left it.
RunOver == pc \in {"done", "raised"}

\* C1: an observation that already has `work` when the loop reaches it is
\* appended to already_processed; no external program is invoked for it, no
\* file is created or modified inside it, and it is in neither the processed
\* list nor the error list.  When every observation had `work`, the run makes
\* no external invocation at all.
C1_WorkMeansSkipped ==
    /\ \A o \in Obs :
        reached[o] = "work" =>
            /\ Count(o, already_processed) = 1
            /\ invoked[o] = <<>>
            /\ ~modified[o]
            /\ ~InList(o, processed_observations)
            /\ ~InList(o, error_observations)
    /\ (RunOver /\ \A o \in Obs : reached[o] = "work") =>
            \A o \in Obs : invoked[o] = <<>>

\* What holds of the code: an observation found with `work` is left alone and
\* is in neither the processed list nor the error list; it is in
\* already_processed, once, unless a log write of lines 115 to 118 raised and
\* left run.
SkippedLeftAlone ==
    \A o \in Obs :
        reached[o] = "work" =>
            /\ invoked[o] = <<>>
            /\ ~modified[o]
            /\ ~InList(o, processed_observations)
            /\ ~InList(o, error_observations)
            /\ Count(o, already_processed) <= 1
            /\ Count(o, already_processed) = 0 => pc = "raised"

\* A run that returned after skipping one observation and reducing another.
SkippedWitness ==
    /\ pc = "done"
    /\ \E o \in Obs : reached[o] = "work" /\ InList(o, already_processed)
    /\ \E o \in Obs : reached[o] = "nowork" /\ invoked[o] /= <<>>

\* C2: run never raises out of its batch loop, whichever step of an
\* observation fails (creating `work`, copying or rewriting initsas.sh,
\* unpacking, the initsas subprocess, the reduction, any post-processing
\* stage), and every later subdirectory is still visited.
C2_RunNeverRaises ==
    /\ pc /= "raised"
    /\ RunOver => \A o \in Obs : reached[o] /= "no"

\* The observation failed part-way in an earlier run: its reduction failed,
\* or a post-processing stage raised after a successful reduction.
FailedPartWay(o) == outcome[o] \in {"reduction", "post"} /\ ranIn[o] < runNo

\* The post-processing stages that the driver calls for every observation
\* it reduces (the stray-light correction runs once per matching file).
ChainSteps == PostSteps \ {"Jupiter_Corrector"}

\* C3 (as stated): running the batch again after an observation failed
\* part-way redoes all post-processing stages for that observation.
C3_RerunRedoesPostProcessing ==
    \A o \in Obs :
        (pc = "done" /\ FailedPartWay(o)) => ChainSteps \subseteq StepsOf(o)

\* C3 (amended): an observation that failed part-way keeps its `work`, so a
\* later run redoes none of the stages for it, and classifies it as already
\* processed unless the run ends at the log write made on reaching it.
C3_RerunSkipsPartialFailure ==
    \A o \in Obs :
        FailedPartWay(o) =>
            /\ work[o]
            /\ StepsOf(o) = {}
            /\ ~modified[o]
            /\ reached[o] /= "no" =>
                  \/ InList(o, already_processed)
                  \/ /\ pc = "raised"
                     /\ \E i \in DOMAIN listing.dirs : i = idx /\ listing.dirs[i] = o

\* The second run returned, and it skipped an observation whose reduction had
\* succeeded but whose post-processing had raised in the first run.
C3_Witness ==
    /\ pc = "done"
    /\ runNo = 2
    /\ \E o \in Obs :
        /\ outcome[o] = "post"
        /\ ranIn[o] = 1
        /\ InList(o, already_processed)

\* C4: when run_commands_in_directory returns False the observation is
\* recorded in error_observations and none of the post-processing steps is
\* invoked for it.
C4_NoPostProcessingAfterFailedReduction ==
    \A o \in Obs :
        (outcome[o] = "reduction" /\ ranIn[o] = runNo) =>
            /\ InList(o, error_observations)
            /\ StepsOf(o) \cap PostSteps = {}

\* initsas ran for o in this run and left no .SAS descriptor in `work`, and
\* the driver is past its test on the descriptor.
NoDescriptor(o) ==
    /\ ranIn[o] = runNo
    /\ "initsas" \in StepsOf(o)
    /\ ~sas[o]
    /\ cur = o => pc \notin {"initsas", "sas_files"}

\* An exception left run during the iteration of o.
RaisedAt(o) == pc = "raised" /\ cur = o

\* The `odf` directory that o had when the loop reached it is still there.
OdfKept(o) == (cur = o /\ odf_dir = "odf") => odf[o]

\* C5: with no .SAS file after initsas, the observation is appended to
\* error_observations, once, and no further stage runs: no sasver or
\* omichain, no post-processing, no other action on its directories.
C5_NoDescriptorNothingElse ==
    \A o \in Obs :
        NoDescriptor(o) =>
            /\ Count(o, error_observations) = 1
            /\ StepsOf(o) = {"initsas"}
            /\ OdfKept(o)

\* What holds of the code: with no .SAS file after initsas, neither the
\* reduction nor any post-processing stage runs, the observation is never in
\* processed_observations, it is in error_observations unless an exception
\* of a log write left run during its iteration, and the only further action
\* on its directories is the removal of `odf` when remove_odf is set.
NoDescriptorOnlyOdfRemoval ==
    \A o \in Obs :
        NoDescriptor(o) =>
            /\ InList(o, error_observations) \/ RaisedAt(o)
            /\ ~InList(o, processed_observations)
            /\ StepsOf(o) = {"initsas"}
            /\ ~remove_odf => OdfKept(o)

\* The driver found no descriptor, the log writes of lines 233 and 239 raised,
\* and run was left with the observation in no list.
NoDescriptorUnlistedWitness ==
    /\ cur \in Obs
    /\ NoDescriptor(cur)
    /\ sas[cur] = FALSE /\ outcome[cur] = "none"
    /\ RaisedAt(cur)
    /\ ~InList(cur, error_observations)
    /\ ~InList(cur, processed_observations)
    /\ ~InList(cur, already_processed)

\* A run returned with an observation without descriptor twice in
\* error_observations: by line 234, and by the handler after a log write of
\* remove_odf_directory raised.
NoDescriptorListedTwiceWitness ==
    /\ pc = "done"
    /\ \E o \in Obs : NoDescriptor(o) /\ Count(o, error_observations) = 2

\* An observation without descriptor is done with, and its `odf` was removed.
NoDescriptorWitness ==
    /\ pc = "loop"
    /\ remove_odf
    /\ odf_dir = "odf"
    /\ NoDescriptor(cur)
    /\ outcome[cur] = "nosas"
    /\ ~odf[cur]
    /\ InList(cur, error_observations)

\* C6: when run is over, the three lists partition the subdirectories: each
\* one is in exactly one of processed_observations, error_observations and
\* already_processed, exactly once, on every success and failure path.
C6_ListsPartitionSubdirectories ==
    RunOver =>
        \A o \in Obs :
            Count(o, processed_observations) + Count(o, error_observations)
                + Count(o, already_processed) = 1

\* What holds of the code on the runs that return: every subdirectory is in
\* one of the lists at least, and one that was skipped is in
\* already_processed once and in no other list.  An observation is in
\* error_observations twice, or in it and in processed_observations, when a
\* log write raised after the first append and the handler of run made the
\* second.
ListedOnReturn ==
    pc = "done" =>
        \A o \in Obs :
            /\ \/ InList(o, processed_observations)
               \/ InList(o, error_observations)
               \/ InList(o, already_processed)
            /\ InList(o, already_processed) =>
                  /\ Count(o, already_processed) = 1
                  /\ ~InList(o, processed_observations)
                  /\ ~InList(o, error_observations)

\* A run returned with an observation in error_observations twice.
ListedTwiceWitness ==
    /\ pc = "done"
    /\ \E o \in Obs : Count(o, error_observations) = 2

\* ---------------------------------------------------------------------
\* Properties of the mosaic builder (create_new_mosaic.py), under SpecMosaic.
\* ---------------------------------------------------------------------

\* C7: mode detection is exclusive: when the directory holds any file
\* matching P*FIMAG*jpiter_filtred_rotated_WCS.FIT, the hybrid path
\* (find_images_for_hybrid_mosaic) is never executed, even when no stacked
\* frame yields a usable filter.
C7_StackedExcludesHybrid ==
    FsimagFiles(mfiles) /= {} =>
        /\ msearches = 0
        /\ mpc \notin {"hybrid_find", "hybrid_run"}
        /\ \A i \in DOMAIN mcalls : mcalls[i].mode /= "hybrid"

\* The builder returned for a directory whose stacked frames all have an
\* unusable filter, while the hybrid search would have found images.
C7_Witness ==
    /\ mpc = "done"
    /\ FsimagFiles(mfiles) /= {}
    /\ \A f \in FsimagFiles(mfiles) : get_filter_from_header(mhdr[f]) = "UNKNOWN"
    /\ \E i \in DOMAIN HybridFilters :
        find_images_for_hybrid_mosaic(mfiles, mhdr, HybridFilters[i]) /= <<>>

\* The filters that have members, in the mode the directory selects.
FiltersWithMembers ==
    IF FsimagFiles(mfiles) /= {}
    THEN {get_filter_from_header(mhdr[f]) : f \in FsimagFiles(mfiles)} \ {"UNKNOWN"}
    ELSE {HybridFilters[i] : i \in
            {j \in DOMAIN HybridFilters :
                find_images_for_hybrid_mosaic(mfiles, mhdr, HybridFilters[j]) /= <<>>}}

\* C8: in both modes, a failure of the mosaic task for one filter does not
\* abort the remaining filters: when create_new_mosaic returns, the task has
\* been invoked for every filter that has members.
C8_EveryFilterAttempted ==
    mpc = "done" =>
        \A flt \in FiltersWithMembers :
            \E i \in DOMAIN mcalls : mcalls[i].filter = flt

\* C9: create_new_mosaic leaves the working directory unchanged: it is the
\* instance's directory during each invocation of the mosaic task, and it is
\* back to what it was when the method returns, whether the task succeeded
\* or failed.
C9_WorkingDirectoryRestored ==
    /\ \A i \in DOMAIN mcalls : mcalls[i].cwd = MosaicObs
    /\ mpc = "done" => cwd = mcwd0

\* The builder returned after a mosaic task failed, having been called from
\* a directory other than its own.
C9_Witness ==
    /\ mpc = "done"
    /\ mcwd0 /= MosaicObs
    /\ cwd = mcwd0
    /\ \E i \in DOMAIN mcalls : ~mcalls[i].ok

\* ---------------------------------------------------------------------
\* Properties of the band combiner (mosaic_combiner.py), under SpecCombiner.
\* ---------------------------------------------------------------------

\* The directory of the specification's example.
ExampleDir ==
    {"P1_UVW1_jupiter_filtred_MOSAIC.FIT", "P1RSIMAGM0.FIT", "P2RSIMAGM0.FIT"}

\* The same directory with hybrid-set names that carry the OMS marker.
ExampleDirOMS ==
    {"P1_UVW1_jupiter_filtred_MOSAIC.FIT", "P1OMS0RSIMAGM0.FIT", "P2OMS0RSIMAGM0.FIT"}

\* C10 (as stated): for a directory holding
\* P1_UVW1_jupiter_filtred_MOSAIC.FIT, P1RSIMAGM0.FIT and P2RSIMAGM0.FIT,
\* get_matching_pairs returns exactly one pair, for key P1, and no pair
\* involves P2.
C10_ExampleHasOnePair ==
    (cpc = "done" /\ cdir = ExampleDir) =>
        cpairs = << <<"P1_UVW1_jupiter_filtred_MOSAIC.FIT", "P1RSIMAGM0.FIT">> >>

\* C10 (amended): the key of a hybrid-set file is its name up to the first
\* `OMS`.  For a directory holding P1_UVW1_jupiter_filtred_MOSAIC.FIT,
\* P1OMS0RSIMAGM0.FIT and P2OMS0RSIMAGM0.FIT exactly one pair is returned, for
\* key P1, and no pair involves P2; with P1RSIMAGM0.FIT and P2RSIMAGM0.FIT in
\* their place no pair is returned.
C10_PairByOMSKey ==
    cpc = "done" =>
        /\ cdir = ExampleDirOMS =>
             cpairs = << <<"P1_UVW1_jupiter_filtred_MOSAIC.FIT", "P1OMS0RSIMAGM0.FIT">> >>
        /\ cdir = ExampleDir => cpairs = <<>>

\* get_matching_pairs returned its one pair for the OMS-marked directory.
C10_Witness ==
    /\ cpc = "done"
    /\ cdir = ExampleDirOMS
    /\ Len(cpairs) = 1

\* ---------------------------------------------------------------------
\* Properties of combine_two_images (mosaic_combiner.py), under SpecImages.
\* ---------------------------------------------------------------------

\* The pixel at position i is NaN in exactly one input; `other` is the value
\* of the input that is not NaN.
OneNaN(i, other) ==
    \/ file1.data[i] = NaN /\ file2.data[i] /= NaN /\ other = file2.data[i]
    \/ file2.data[i] = NaN /\ file1.data[i] /= NaN /\ other = file1.data[i]

\* C11 (as stated): combine_two_images is NaN-safe: a pixel that is NaN in
\* exactly one input equals the other input's value in the result, no result
\* pixel is NaN when the non-NaN inputs are finite, and the returned header
\* is the first file's.
C11_NaNPixelEqualsOtherInput ==
    ipc = "done" =>
        /\ \A i \in 1..NPix : \A other \in PixelValues :
              OneNaN(i, other) => combined.data[i] = other
        /\ \A i \in 1..NPix :
              {file1.data[i].k, file2.data[i].k} \subseteq {"nan", "fin", "huge"}
                  => combined.data[i] /= NaN
        /\ combined.header = file1.header

\* C11 (amended): the inputs are cast to float32 and passed through
\* nan_to_num before the sum, so a pixel that is NaN in exactly one input
\* equals the other input's value when that value is finite in float32, and
\* the largest (most negative) finite float32 when it is +inf or beyond the
\* float32 range (-inf); a pixel that is NaN in both inputs is 0; no result
\* pixel is NaN; the returned header is the first file's.
C11_NaNPixelEqualsClippedOther ==
    ipc = "done" =>
        /\ \A i \in 1..NPix : \A other \in PixelValues :
              OneNaN(i, other) =>
                  combined.data[i] =
                      CASE other.k = "fin"           -> other
                        [] other \in {PosInf, Huge}  -> Float32Max
                        [] other = NegInf            -> Float32Min
        /\ \A i \in 1..NPix :
              (file1.data[i] = NaN /\ file2.data[i] = NaN) => combined.data[i] = Fin(0)
        /\ \A i \in 1..NPix : combined.data[i] /= NaN
        /\ combined.header = file1.header

\* Two images were combined where one pixel is NaN in the first image only,
\* against an ordinary value, and another is NaN in the second image only,
\* against an infinity.
C11_Witness ==
    /\ ipc = "done"
    /\ \E i \in 1..NPix : file1.data[i] = NaN /\ file2.data[i] = Fin(MaxPix)
    /\ \E j \in 1..NPix : file2.data[j] = NaN /\ file1.data[j] = PosInf
    /\ combined.header = "header1"

\* ---------------------------------------------------------------------
\* Properties of apply_segmentation_mask (SExtractor.py), under SpecMask.
\* ---------------------------------------------------------------------

\* C12: for an image and a segmentation map of equal dimensions, the written
\* `_masked` output equals the original image at every pixel where the map
\* value is <= 0 and is exactly 0 at every pixel where the map value is > 0;
\* the original image file is not modified.
C12_MaskedOutput ==
    \A w \in DOMAIN kout :
        LET image == kdir0[kout[w].image]
            seg   == kdir0[kout[w].map]
            out   == kdir[kout[w].out]
        IN  /\ Len(out) = Len(image)
            /\ \A i \in DOMAIN image :
                  /\ seg[i] <= 0 => out[i] = image[i]
                  /\ seg[i] > 0 => out[i] = 0
            /\ kdir[kout[w].image] = image
            /\ kout[w].out = MaskedName(kout[w].image)
            /\ kout[w].out /= kout[w].image

\* The function returned after it wrote the masked copy of an image whose
\* map has a negative and a positive value among its pixels.
C12_Witness ==
    /\ kpc = "done"
    /\ \E w \in DOMAIN kout :
        /\ kout[w].out = "A_masked.FIT"
        /\ {kdir0[kout[w].map][i] : i \in DOMAIN kdir0[kout[w].map]} = {-1, 1}
        /\ kdir["A_masked.FIT"] /= kdir0["A.FIT"]

\* ---------------------------------------------------------------------
\* Properties of Jupiter_Corrector (jupiter_corrector.py), under
\* SpecCorrector.
\* ---------------------------------------------------------------------

\* C13: a calibration model is used only when its key exactly equals
\* (requested filter, image shape); when the loaded dictionary has no such
\* key the construction fails with the missing-model error and no output
\* file is created or overwritten.
C13_ExactModelKey ==
    /\ jused /= "none" => ModelKey(jmodeldir, jused) = <<jfiltro, jshape>>
    /\ jpc \in {"done", "raised"} =>
          IF <<jfiltro, jshape>> \in DOMAIN jmodels
          THEN jpc = "done" /\ jused = jmodels[<<jfiltro, jshape>>]
          ELSE jpc = "raised" /\ jused = "none" /\ joutput \in {"absent", "old"}
    /\ joutput = "corrected" => jpc = "done"

\* Only the model of UVW1 for the shape (10, 10) is loaded, UVM2 is requested
\* for an image of that shape, and the construction failed leaving the file
\* at the output path as it was.
C13_Witness ==
    /\ jpc = "raised"
    /\ DOMAIN jmodels = {<<"UVW1", <<10, 10>>>>}
    /\ jfiltro = "UVM2"
    /\ jshape = <<10, 10>>
    /\ joutput = "old"

\* ---------------------------------------------------------------------
\* Properties of Download.baixar_observacoes (get_data.py), under
\* SpecDownload.
\* ---------------------------------------------------------------------

\* C14: the download client is never invoked for an observation id whose
\* directory or .tar.gz archive is in the destination directory at the moment
\* the id is reached in the row range, ids that occur more than once
\* included; and a failed download does not prevent the remaining ids from
\* being attempted.
C14_NoDownloadOfPresentId ==
    /\ \A c \in DOMAIN gcalls : ~gcalls[c].present
    /\ gpc = "done" =>
          \A r \in DOMAIN gcat :
              \/ ObsidStr(gcat[r]) \in gskip
              \/ \E c \in DOMAIN gcalls : gcalls[c].obsid = ObsidStr(gcat[r])

\* The same for the ids that were in the directory when the download began,
\* and the second half as it is.
DownloadSnapshotSkip ==
    /\ \A c \in DOMAIN gcalls : gcalls[c].obsid \notin gskip
    /\ gpc = "done" =>
          \A r \in DOMAIN gcat :
              \/ ObsidStr(gcat[r]) \in gskip
              \/ Cardinality({c \in DOMAIN gcalls : gcalls[c].obsid = ObsidStr(gcat[r])})
                    = Cardinality({q \in DOMAIN gcat : gcat[q] = gcat[r]})

\* ------------------------------------------------------------------------
\* C15

\* The place of a step in the listing (Stray-Light Corrector, Astrometric
\* Batch Matcher, Mosaic Builder, Band Combiner, segmentation detection pass,
\* masking pass), 0 for a step the listing does not name.
StageRank ==
    [step \in PostSteps \cup ReductionSteps \cup {"initsas"} |->
        CASE step = "Jupiter_Corrector" -> 1
          [] step = "OMAttBatchProcessor" -> 2
          [] step = "Build_Mosaic" -> 3
          [] step = "UVImageCombiner" -> 4
          [] step = "running_Sextractor" -> 5
          [] step = "apply_segmentation_mask" -> 6
          [] OTHER -> 0]

\* The place of the i-th step invoked for observation o.
RankAt(o, i) == StageRank[invoked[o][i].step]

\* The chain of observation o has been left in the present run.
ChainLeft(o) ==
    /\ ranIn[o] = runNo
    /\ outcome[o] \in {"ok", "post", "reduction"}
    /\ cur /= o \/ pc \in {"rmodf", "rmtar", "loop", "done", "raised"}

\* The chain of the observation in hand has just been left.
ChainJustLeft ==
    /\ pc = "rmodf"
    /\ outcome[cur] \in {"ok", "post", "reduction"}

\* C15: for every observation that reaches post-processing the listed stages
\* are invoked one after another in the order Stray-Light Corrector,
\* Astrometric Batch Matcher, Mosaic Builder, Band Combiner, segmentation
\* detection pass, masking pass: at every moment the listed stage invoked
\* last for the observation in hand is not earlier in the listing than any
\* stage invoked before it, and is the same stage as one before it only if
\* it is the per-file corrector; and when the chain is left at its end the
\* matcher, the builder and the combiner have been invoked, and the two
\* passes too if no step of the chain failed.
C15_StagesInListedOrder ==
    cur \in Obs =>
        /\ (invoked[cur] /= <<>> /\ RankAt(cur, Len(invoked[cur])) > 0) =>
              \A i \in 1..(Len(invoked[cur]) - 1) :
                  RankAt(cur, i) > 0 =>
                      /\ RankAt(cur, i) <= RankAt(cur, Len(invoked[cur]))
                      /\ RankAt(cur, i) = RankAt(cur, Len(invoked[cur])) =>
                             RankAt(cur, i) = 1
        /\ ChainJustLeft =>
              \A k \in 2..6 :
                  (k <= 4 \/ outcome[cur] = "ok") =>
                      \E i \in DOMAIN invoked[cur] : RankAt(cur, i) = k

\* A reduced observation whose chain is left, with the corrector and every
\* later stage invoked.
C15_Witness ==
    \E o \in Obs :
        /\ outcome[o] = "ok"
        /\ ChainLeft(o)
        /\ PostSteps \subseteq StepsOf(o)

\* ------------------------------------------------------------------------
\* C16

\* C16: each post-processing sub-step is isolated.  An observation whose
\* reduction succeeded and one of whose sub-steps raised is still in
\* processed_observations, once, and in neither other list; and when its
\* iteration is past the chain every sub-step after the per-file correction
\* has been invoked for it.
C16_SubStepsIsolated ==
    \A o \in Obs :
        (outcome[o] = "post" /\ ranIn[o] = runNo) =>
            /\ Count(o, processed_observations) = 1
            /\ ~InList(o, error_observations)
            /\ ~InList(o, already_processed)
            /\ ChainLeft(o) => ChainSteps \subseteq StepsOf(o)

\* What holds of the code: a sub-step that raised leaves the observation in
\* processed_observations, once, and the rest of the chain is run, unless a
\* log write of an except clause raised in its turn; then the observation is
\* in error_observations as well, or run is left.
SubStepsIsolatedUnlessLogRaises ==
    \A o \in Obs :
        (outcome[o] = "post" /\ ranIn[o] = runNo) =>
            /\ Count(o, processed_observations) = 1
            /\ ~InList(o, already_processed)
            /\ (ChainLeft(o) /\ ~RaisedAt(o)) =>
                  /\ ~InList(o, error_observations)
                  /\ ChainSteps \ {"running_Sextractor", "apply_segmentation_mask"}
                         \subseteq StepsOf(o)

\* A sub-step of a reduced observation raised, and the chain was run to its
\* end all the same.
SubStepsIsolatedWitness ==
    \E o \in Obs :
        /\ outcome[o] = "post"
        /\ ChainLeft(o)
        /\ ChainSteps \subseteq StepsOf(o)
        /\ InList(o, processed_observations)

\* ------------------------------------------------------------------------
\* C17

\* The control points at which an external SAS task is about to be invoked
\* for the observation cur.
AtSasTask == pc \in {"sasver", "omichain", "omatt_task", "ommosaic_task"}

\* C17: whenever sasver, omichain, omatt or ommosaic is about to be invoked
\* on behalf of an observation, SAS_ODF and SAS_CCF name the `work`
\* directory of that observation and not that of an observation processed
\* before.
C17_EnvironmentOfCurrentObservation ==
    AtSasTask => (SAS_ODF = cur /\ SAS_CCF = cur)

\* omatt is about to run for an observation after another observation was
\* reduced in the same run.
C17_Witness ==
    /\ pc = "omatt_task"
    /\ SAS_ODF = cur
    /\ SAS_CCF = cur
    /\ \E o \in Obs : o /= cur /\ "omichain" \in StepsOf(o)

\* ------------------------------------------------------------------------
\* C18

PairKeys == {MosaicKey(cpairs[i][1]) : i \in DOMAIN cpairs}

\* C18: get_matching_pairs is sound.  Every returned pair holds a file of
\* the directory matching P*_UVW1_jupiter_filtred_MOSAIC.FIT and one matching
\* P*RSIMAGM*.FIT, whose keys (the text before the first underscore, and the
\* text before the OMS marker) are equal; the keys of the pairs are exactly
\* the keys present in both sets, so a key of one set only yields no pair,
\* and no two pairs share a key.  When no pair exists run returns without
\* raising and without writing a file.
C18_PairsSoundAndNoPairHarmless ==
    /\ cpc \in {"done", "returned", "raised"} =>
          /\ \A i \in DOMAIN cpairs :
                /\ cpairs[i][1] \in cdir
                /\ cpairs[i][2] \in cdir
                /\ FnMatch(cpairs[i][1], "P*_UVW1_jupiter_filtred_MOSAIC.FIT")
                /\ FnMatch(cpairs[i][2], "P*RSIMAGM*.FIT")
                /\ SplitHead(cpairs[i][1], "_") = SplitHead(cpairs[i][2], "OMS")
          /\ PairKeys = CommonKeys(cdir)
          /\ \A i, j \in DOMAIN cpairs :
                MosaicKey(cpairs[i][1]) = MosaicKey(cpairs[j][1]) => i = j
    /\ (cpc \in {"done", "returned", "raised"} /\ cpairs = <<>>) =>
          /\ cwritten = {}
          /\ cpc /= "raised"

\* get_matching_pairs returned a pair for one key while another key was in
\* the hybrid set only and a second hybrid-set file had the key of the pair.
C18_Witness ==
    /\ cpc = "done"
    /\ Len(cpairs) = 1
    /\ {HybridKey(f) : f \in HybridSetFiles(cdir)} \ PairKeys /= {}
    /\ Cardinality({f \in HybridSetFiles(cdir) : HybridKey(f) \in PairKeys}) = 2

\* run returned for a directory without a pair although both sets had files.
C18_WitnessNoPair ==
    /\ cpc = "returned"
    /\ cpairs = <<>>
    /\ MosaicSetFiles(cdir) /= {}
    /\ HybridSetFiles(cdir) /= {}

\* ------------------------------------------------------------------------
\* C19

ImageA == "P0000000001OMS001FIMAG_0000_jpiter_filtred.FIT"

ImageB == "P0000000001OMS002IMAGE_1000_jpiter_filtred.FIT"

ImageNineDigits == "P000000001OMS001FIMAG_0000_jpiter_filtred.FIT"

SourceListsA == {"P0000000001OMS001SWSRLI0000.FIT", "P0000000001OMS001SWSRLI1000.FIT"}

SourceListsB == {"P0000000001OMS002SWSRLI0000.FIT"}

CatalogsA == {"I0000000001OMS001USNO0000.FIT"}

CatalogsB == {"I0000000001OMS002USNO0000.FIT"}

\* The candidate images of the directory that carry the ids and have both
\* companions, told from the names themselves.
PairedImages ==
    {f \in {ImageA} : f \in adir /\ SourceListsA \cap adir /= {} /\ CatalogsA \cap adir /= {}}
    \cup
    {f \in {ImageB} : f \in adir /\ SourceListsB \cap adir /= {} /\ CatalogsB \cap adir /= {}}

\* _find_and_pair_files has returned.
FindReturned == apc \in {"loop", "returned"}

\* C19: _find_and_pair_files builds exactly one record for each candidate
\* image *_jpiter_filtred.FIT whose name holds P<10 digits>OMS<3 digits> and
\* that has a source list P<obsid><expid>*SWSRLI*.FIT and a catalog
\* I<obsid><expid>*USNO*.FIT of its own ids, the record naming companions of
\* those ids; a candidate without the ids in its name or without a companion
\* gets no record, and the candidates after it are still examined.
C19_OneRecordPerPairedImage ==
    /\ \A i \in DOMAIN asets :
          /\ asets[i].set_file \in PairedImages
          /\ asets[i].set_file = ImageA =>
                /\ asets[i].sourcelistset_file \in SourceListsA \cap adir
                /\ asets[i].catfile_path \in CatalogsA \cap adir
          /\ asets[i].set_file = ImageB =>
                /\ asets[i].sourcelistset_file \in SourceListsB \cap adir
                /\ asets[i].catfile_path \in CatalogsB \cap adir
          /\ \A j \in DOMAIN asets : asets[i].set_file = asets[j].set_file => i = j
    /\ FindReturned => {asets[i].set_file : i \in DOMAIN asets} = PairedImages

\* The image of the second exposure got the only record of a directory that
\* also held a candidate with nine digits and a candidate without a catalog.
C19_Witness ==
    /\ FindReturned
    /\ {ImageA, ImageB, ImageNineDigits} \subseteq adir
    /\ SourceListsA \cap adir /= {}
    /\ CatalogsA \cap adir = {}
    /\ Len(asets) = 1
    /\ asets[1].set_file = ImageB

\* ------------------------------------------------------------------------
\* C20

\* C20: run invokes omatt exactly once per processing record, in record
\* order, with SAS_CCF set to the work directory; a failed invocation does
\* not keep the remaining records from being invoked, and run does not raise
\* once it has records.
C20_OmattOncePerRecord ==
    /\ Len(acalls) <= Len(asets)
    /\ \A i \in DOMAIN acalls :
          /\ acalls[i].set = asets[i]
          /\ acalls[i].ccf = "work"
    /\ apc = "loop" => Len(acalls) = aidx - 1
    /\ (apc = "returned" /\ FindReturned) => Len(acalls) = Len(asets)
    /\ apc = "raised" => (asets = <<>> /\ acalls = <<>>)

\* run returned after omatt failed for the first of two records and was
\* invoked for the second.
C20_Witness ==
    /\ apc = "returned"
    /\ Len(asets) = 2
    /\ Len(acalls) = 2
    /\ acalls[1].result = "CalledProcessError"
    /\ acalls[2].set = asets[2]

\* ------------------------------------------------------------------------
\* C21

\* The stacked-frame candidates whose header gives the filter flt.
StackedMembers(flt) ==
    {f \in FsimagFiles(mfiles) : get_filter_from_header(mhdr[f]) = flt}

\* The filters of the stacked-frame candidates, the undetermined one left out.
StackedFilters ==
    {get_filter_from_header(mhdr[f]) : f \in FsimagFiles(mfiles)} \ {"UNKNOWN"}

\* The invocation c is the one the claim describes for its filter: all and
\* only the members of the filter, joined by blanks, and the output name of
\* the observation and the filter.
StackedCallAsClaimed(c) ==
    /\ c.mode = "stacked"
    /\ c.filter \in StackedFilters
    /\ \E order \in Orderings(StackedMembers(c.filter)) :
          c.imagesets = JoinBlank(order)
    /\ c.mosaicedset = "P01_" \o c.filter \o "_jupiter_filtred_MOSAIC.FIT"

\* C21: in stacked-frame mode create_new_mosaic groups the candidates by the
\* filter of their header, leaving out those without one, and for each
\* filter with a member invokes ommosaic exactly once, with all and only
\* the members of the filter as imagesets and
\* <obsid>_<filter>_jupiter_filtred_MOSAIC.FIT as mosaicedset.
C21_StackedOncePerFilter ==
    (mpc = "done" /\ FsimagFiles(mfiles) /= {}) =>
        /\ \A i \in DOMAIN mcalls : StackedCallAsClaimed(mcalls[i])
        /\ \A flt \in StackedFilters :
              Cardinality({i \in DOMAIN mcalls : mcalls[i].filter = flt}) = 1

\* What holds of stacked-frame mode on every path: each invocation made is
\* the one described, no filter is invoked twice, and every filter with a
\* member is invoked unless an invocation before it failed.
StackedCallsSound ==
    FsimagFiles(mfiles) /= {} =>
        /\ \A i \in DOMAIN mcalls : StackedCallAsClaimed(mcalls[i])
        /\ \A i, j \in DOMAIN mcalls : mcalls[i].filter = mcalls[j].filter => i = j
        /\ (mpc = "done" /\ \A i \in DOMAIN mcalls : mcalls[i].ok) =>
              {mcalls[i].filter : i \in DOMAIN mcalls} = StackedFilters

\* ------------------------------------------------------------------------
\* C22

Corrected003 == "P01OMS003IMAGE_1000_jpiter_filtred_rotated_WCS.FIT"

Corrected004 == "P01OMS004IMAGE_1000_jpiter_filtred_rotated_WCS.FIT"

Companion003 == "P01OMS003SIMAGE1000.FIT"

Companion005 == "P01OMS005SIMAGE1000.FIT"

\* The file f is in the directory and its header gives the filter flt.
HasFilter(f, flt) == f \in mfiles /\ get_filter_from_header(mhdr[f]) = flt

\* The images the claim describes for the filter flt, told from the names:
\* the first corrected component of the filter, and the companions of the
\* filter of another exposure.
HybridImagesAsClaimed(flt) ==
    IF HasFilter(Corrected003, flt)
    THEN {Corrected003} \cup {f \in {Companion005} : HasFilter(f, flt)}
    ELSE IF HasFilter(Corrected004, flt)
    THEN {Corrected004} \cup {f \in {Companion003, Companion005} : HasFilter(f, flt)}
    ELSE {}

\* C22: in hybrid mode, for each filter of the priority list the images are
\* the lexicographically first corrected and rotated IMAGE_1000 file of that
\* filter with every SIMAGE1000 file of that filter whose exposure id is not
\* the selected file's; a filter without corrected file gets no image and no
\* ommosaic; ommosaic is invoked at most once per filter, and when the
\* builder returns it has been invoked for every filter that has images.
C22_HybridImagesPerFilter ==
    FsimagFiles(mfiles) = {} =>
        /\ \A i \in DOMAIN mcalls :
              /\ mcalls[i].mode = "hybrid"
              /\ HybridImagesAsClaimed(mcalls[i].filter) /= {}
              /\ mcalls[i].imagesets =
                     JoinBlank(SortedStrings(HybridImagesAsClaimed(mcalls[i].filter)))
              /\ \A j \in DOMAIN mcalls : mcalls[i].filter = mcalls[j].filter => i = j
        /\ mpc = "hybrid_run" =>
              {image_files[i] : i \in DOMAIN image_files} =
                  HybridImagesAsClaimed(HybridFilters[target])
        /\ mpc = "done" =>
              {mcalls[i].filter : i \in DOMAIN mcalls} =
                  {HybridFilters[k] : k \in {n \in DOMAIN HybridFilters :
                                        HybridImagesAsClaimed(HybridFilters[n]) /= {}}}

\* The builder returned after two mosaics: the one of UVW1 made of the second
\* corrected component and the companion of the first one's exposure, the
\* first corrected component being of UVM2.
C22_Witness ==
    /\ mpc = "done"
    /\ Len(mcalls) = 2
    /\ mcalls[1].filter = "UVW1"
    /\ mcalls[1].imagesets = Companion003 \o " " \o Corrected004
    /\ mcalls[2].filter = "UVM2"
    /\ mcalls[2].imagesets = Corrected003

\* C23: a segmentation map whose original image (the map's name with
\* `_segmentation_map` removed) does not exist, or has other dimensions than
\* the map, gets no `_masked` file: it is skipped, or an exception of the
\* reading is caught before the dimensions are compared; a map is skipped
\* only for one of these two reasons; no exception leaves the function; and
\* every segmentation map of the directory is visited by the loop, whatever
\* happened to the maps before it.
SkippedMap(m) ==
    \/ OriginalName(m) \notin DOMAIN kdir0
    \/ Len(kdir0[OriginalName(m)]) /= Len(kdir0[m])

C23_SkipsWithoutFailing ==
    /\ kpc \in {"idle", "ready", "loop", "done"}
    /\ \A i \in DOMAIN kseen :
          /\ kseen[i].outcome \in {"missing", "shape", "written", "error"}
          /\ kseen[i].outcome \in {"missing", "shape"} => SkippedMap(kseen[i].map)
          /\ kseen[i].outcome = "missing" <=>
                OriginalName(kseen[i].map) \notin DOMAIN kdir0
          /\ SkippedMap(kseen[i].map) =>
                /\ kseen[i].outcome /= "written"
                /\ MaskedName(OriginalName(kseen[i].map)) \notin DOMAIN kdir
                /\ \A w \in DOMAIN kout : kout[w].map /= kseen[i].map
    /\ kpc = "done" =>
          /\ {kseen[i].map : i \in DOMAIN kseen} =
                Glob(DOMAIN kdir0, "*_segmentation_map.*")
          /\ Len(kseen) = Cardinality(Glob(DOMAIN kdir0, "*_segmentation_map.*"))

\* The function returned after it skipped the map of a missing image and
\* then wrote the masked copy of the image of the next map.
C23_Witness ==
    /\ kpc = "done"
    /\ Len(kseen) = 2
    /\ kseen[1].outcome = "missing"
    /\ kseen[2].outcome = "written"
    /\ MaskedName(OriginalName(kseen[2].map)) \in DOMAIN kdir

\* The function returned after it skipped a map of other dimensions than
\* its image and then wrote the masked copy of the image of the next map.
C23_WitnessShape ==
    /\ kpc = "done"
    /\ Len(kseen) = 2
    /\ kseen[1].outcome = "shape"
    /\ kseen[2].outcome = "written"

\* The function returned after the reading of a pair of different dimensions
\* raised inside the try, and then wrote the masked copy of the image of the
\* next map.
C23_WitnessUnreadable ==
    /\ kpc = "done"
    /\ Len(kseen) = 2
    /\ SkippedMap(kseen[1].map)
    /\ kseen[1].outcome = "error"
    /\ kseen[2].outcome = "written"

\* ---------------------------------------------------------------------
\* Properties of running_Sextractor (SExtractor.py), under SpecSextractor.
\* ---------------------------------------------------------------------

SexMatches(name) == {i \in DOMAIN padroes : FnMatch(name, padroes[i])}

SexCallsFor(name) == {i \in DOMAIN scalls : scalls[i].file = name}

\* The function went through its loops and returned.
SexReturned == spc = "done" /\ sconfig

\* C24: when running_Sextractor returns, the detector has been invoked
\* exactly once for every file of the directory that matches one of the
\* three patterns and bears no `_segmentation_map` or `_masked` marker, and
\* never for a file bearing one of the markers, whatever the exit status of
\* the detector was on the other files.
C24_DetectorOncePerUnmarkedFile ==
    SexReturned =>
        \A name \in sdir0 :
            /\ (SexMatches(name) /= {} /\ ~MarkedBaseName(sdirname, name))
                  => Cardinality(SexCallsFor(name)) = 1
            /\ MarkedBaseName(sdirname, name) => SexCallsFor(name) = {}

\* What holds of the code: the detector is invoked once per pattern that a
\* file matches, provided the path of the file, directory included, holds
\* no marker; a non-zero exit does not stop the loops.
SexCallsSound ==
    /\ \A i \in DOMAIN scalls :
          /\ scalls[i].file \in sdir0
          /\ SexMatches(scalls[i].file) /= {}
          /\ ~Marked(sdirname, scalls[i].file)
          /\ scalls[i].out = SegmentationName(scalls[i].file)
    /\ SexReturned =>
          \A name \in sdir0 :
              Cardinality(SexCallsFor(name)) =
                  IF Marked(sdirname, name) THEN 0
                  ELSE Cardinality(SexMatches(name))

\* The function returned after a non-zero exit of the detector on one file
\* and a successful invocation on a later one.
SexWitnessAfterNonZero ==
    /\ SexReturned
    /\ Len(scalls) = 2
    /\ scalls[1].result = "nonzero"
    /\ scalls[2].result = "ok"
    /\ scalls[1].file /= scalls[2].file

\* ---------------------------------------------------------------------
\* The removal of the input directory (running_omichain.py), under Spec.
\* ---------------------------------------------------------------------

\* The directory of observation o is an entry of the batch root; no statement
\* of the driver removes it.
ObsDirExists(o) == \E i \in DOMAIN listing.dirs : listing.dirs[i] = o

\* The input directory chosen for the current observation is gone.
InputDirRemoved ==
    IF odf_dir = "odf" THEN ~odf[cur] ELSE ~ObsDirExists(cur)

\* The iteration of the current observation is past its try statement.
IterationOver == pc = "rmtar"

\* No step deletes an `odf` directory unless remove_odf is set.
OdfKeptUnlessConfigured == [][~remove_odf => odf' = odf]_vars

\* C25 (as stated): with remove_odf false no step of any run deletes the
\* `odf` directory of any observation; with remove_odf true the input
\* directory chosen for the observation (`odf`, or the observation root) is
\* removed once the observation has been processed.
C25_InputDirRemovedWhenConfigured ==
    /\ OdfKeptUnlessConfigured
    /\ []((IterationOver /\ remove_odf) => InputDirRemoved)

\* C25 (amended): an `odf` directory is deleted only by remove_odf_directory,
\* with remove_odf set, and only that of the current observation; an `odf`
\* directory that was chosen as input directory and is gone when the iteration
\* is past the try statement was removed with remove_odf set, whether or not
\* the reduction succeeded (a failure of rmtree leaves it in place, and so
\* does an exception that leaves the try statement before
\* remove_odf_directory is called); the observation root is never removed.
C25_OdfRemovedOnlyByConfiguredStep ==
    /\ [][odf' /= odf => /\ remove_odf
                         /\ pc = "rmodf"
                         /\ odf' = [odf EXCEPT ![cur] = FALSE]]_vars
    /\ []((IterationOver /\ odf_dir = "odf" /\ ~odf[cur]) => remove_odf)
    /\ []((pc \notin {"loop", "rmodf", "rmtar", "raised", "done"} /\ odf_dir = "odf")
              => odf[cur])
    /\ [](cur \in Obs => ObsDirExists(cur))

\* The reduction of an observation failed, and its `odf` directory, chosen
\* as its input directory, has been removed.
C25_Witness ==
    /\ IterationOver
    /\ remove_odf
    /\ odf_dir = "odf"
    /\ outcome[cur] = "reduction"
    /\ ~odf[cur]

\* An exception left the try statement and the chosen `odf` is still there
\* although remove_odf is set.
C25_WitnessException ==
    /\ IterationOver
    /\ remove_odf
    /\ odf_dir = "odf"
    /\ outcome[cur] = "setup"
    /\ odf[cur]

\* ---------------------------------------------------------------------
\* Properties of sincronizar_wcs_de_fits (check_fits.py), under SpecWcs.
\* ---------------------------------------------------------------------

\* A reference and a target were found and the function has been called.
WcsCalled == worigem /\ wdestino /\ wlog /= <<>>

\* Each of the six keywords of the target has the value of the reference.
WcsEqualReference ==
    \A k \in WcsKeywords :
        /\ k \in DOMAIN wtarget
        /\ k \in DOMAIN wheader
        /\ wtarget[k] = wheader[k]

\* The keywords of the target other than the six are as before the calls.
WcsOthersUntouched ==
    /\ DOMAIN wtarget \ WcsKeywords = DOMAIN wtarget0 \ WcsKeywords
    /\ \A k \in DOMAIN wtarget0 \ WcsKeywords : wtarget[k] = wtarget0[k]

\* The target was written by the first call exactly when it had a keyword
\* missing or different, and by no later call.
WcsWrittenWhenNeeded ==
    /\ wlog[1] = "flushed" <=> precisa_atualizar(wtarget0, wheader)
    /\ \A i \in DOMAIN wlog : i > 1 => wlog[i] = "same"

\* C26 (as stated): when a reference file and a target file are found, after
\* the call each of the six keywords of the target equals the reference's
\* value; the target is written only if one of them was missing or
\* different, a second call changes nothing, and no other keyword of the
\* target is changed.
C26_TargetEqualsReference ==
    WcsCalled =>
        /\ WcsEqualReference
        /\ WcsOthersUntouched
        /\ ReferenceAccepted(wfilter, wheader) => WcsWrittenWhenNeeded

\* C26 (amended): when a reference file and a target file are found and the
\* reference has FILTER with the value UVW1 (blanks and case apart) and all
\* six keywords, after the call each of the six keywords of the target
\* equals the reference's value, the target is written only if one of them
\* was missing or different, a second call changes nothing, and no other
\* keyword of the target is changed; with any other reference the target is
\* left as it was and never written.
C26_TargetEqualsAcceptedReference ==
    WcsCalled =>
        IF ReferenceAccepted(wfilter, wheader)
        THEN /\ WcsEqualReference
             /\ WcsOthersUntouched
             /\ WcsWrittenWhenNeeded
        ELSE /\ wtarget = wtarget0
             /\ \A i \in DOMAIN wlog : wlog[i] = "noaction"

\* The function was called twice for a reference given as ` uvw1 ` and a
\* target that lacked a keyword and differed in another: the first call
\* wrote the target, the second did not.
C26_Witness ==
    /\ WcsCalled
    /\ wfilter = <<" uvw1 ">>
    /\ wlog = <<"flushed", "same">>
    /\ DOMAIN wtarget0 /= DOMAIN wtarget
    /\ \E k \in DOMAIN wtarget0 \cap WcsKeywords : wtarget0[k] /= wtarget[k]
    /\ wtarget["EXPOSURE"] = wtarget0["EXPOSURE"]

\* The function was called for a reference of another filter and a target
\* that differs from it: the target is as it was.
C26_WitnessOtherFilter ==
    /\ WcsCalled
    /\ wfilter = <<"UVM2">>
    /\ WcsKeywords \subseteq DOMAIN wheader
    /\ WcsKeywords \subseteq DOMAIN wtarget
    /\ wtarget["CRPIX1"] /= wheader["CRPIX1"]

\* ---------------------------------------------------------------------
\* Properties of the names of the outputs, under SpecNames.
\* ---------------------------------------------------------------------

\* The suffix of each stage.
StageSuffix ==
    [stage \in {"corrector", "matcher", "mosaic", "combiner", "detection", "masking"} |->
        CASE stage = "corrector" -> "_jpiter_filtred"
          [] stage = "matcher"   -> "_rotated_WCS"
          [] stage = "mosaic"    -> "_jupiter_filtred_MOSAIC"
          [] stage = "combiner"  -> "_combined_UVM2_UVW1"
          [] stage = "detection" -> "_segmentation_map"
          [] stage = "masking"   -> "_masked"]

\* The output is the input with the suffix of the stage before the extension.
AppendsSuffix(e) ==
    e.output = SplitExt(e.input)[1] \o StageSuffix[e.stage] \o SplitExt(e.input)[2]

\* The observation id of the input is at the start of the output.
ObsidKept(e) ==
    /\ get_obsid(<<e.input>>) /= "UNKNOWN_OBSID"
    /\ get_obsid(<<e.output>>) = get_obsid(<<e.input>>)

\* The exposure id of the input, if it has one, is at the same position in
\* the output.
ExposureKept(e) ==
    get_exposure_id(e.input) /= "" =>
        /\ get_exposure_id(e.output) = get_exposure_id(e.input)
        /\ FindFirst(e.output, get_exposure_id(e.input)) =
               FindFirst(e.input, get_exposure_id(e.input))

\* C27 (as stated): every stage names its output by inserting its suffix
\* before the extension of its input's name, replacing nothing, so that the
\* observation id and the exposure id of the input are at the same position
\* in the output: the corrector, the matcher, the mosaic builder, the band
\* combiner, the detection pass and the masking pass.
C27_EveryStageAppends ==
    \A i \in DOMAIN nlog :
        AppendsSuffix(nlog[i]) /\ ObsidKept(nlog[i]) /\ ExposureKept(nlog[i])

\* C27 (amended): the corrector, the matcher, the detection pass and the
\* masking pass insert their suffix before the extension of the name of the
\* image, replacing nothing, so the observation id and the exposure id stay
\* where they were; the mosaic builder names its output
\* <obsid>_<filter>_jupiter_filtred_MOSAIC.FIT and the band combiner
\* <obsid>_combined_UVM2_UVW1.fits: the observation id stays at the start
\* and what followed it in the input, the exposure id included, is replaced.
C27_AppendingStagesAndBuilders ==
    \A i \in DOMAIN nlog :
        LET e == nlog[i]
        IN  /\ ObsidKept(e)
            /\ e.stage \in {"corrector", "matcher", "detection", "masking"} =>
                  AppendsSuffix(e) /\ ExposureKept(e)
            /\ e.stage = "mosaic" =>
                  /\ \E flt \in {"UVW1", "UVM2"} :
                        e.output = get_obsid(<<e.input>>) \o "_" \o flt
                                       \o "_jupiter_filtred_MOSAIC.FIT"
                  /\ get_exposure_id(e.input) /= ""
                  /\ get_exposure_id(e.output) = ""
                  /\ ~AppendsSuffix(e)
            /\ e.stage = "combiner" =>
                  /\ e.output = get_obsid(<<e.input>>) \o "_combined_UVM2_UVW1.fits"
                  /\ ~AppendsSuffix(e)

\* The mosaic builder was given a list whose first name is a SIMAGE1000
\* companion, which no earlier stage had renamed.
MosaicFromCompanionWitness ==
    /\ Len(nlog) = 1
    /\ nlog[1].stage = "mosaic"
    /\ nlog[1].input = "P0123456789OMS001SIMAGE1000.FIT"
    /\ nlog[1].output = "P0123456789_UVM2_jupiter_filtred_MOSAIC.FIT"

\* A stacked frame went through the corrector, the matcher, the mosaic
\* builder, the band combiner, the detection pass and the masking pass.
C27_Witness ==
    /\ Len(nlog) = 6
    /\ nlog[1].input = "P0123456789OMS402FIMAG_0000.FIT"
    /\ nlog[2].output = "P0123456789OMS402FIMAG_0000_jpiter_filtred_rotated_WCS.FIT"
    /\ nlog[3].output = "P0123456789_UVW1_jupiter_filtred_MOSAIC.FIT"
    /\ nlog[4].output = "P0123456789_combined_UVM2_UVW1.fits"
    /\ nlog[6].stage = "masking"
    /\ nname = "P0123456789_combined_UVM2_UVW1_masked.fits"

\* ---------------------------------------------------------------------
\* `work` as the mark of a started observation (running_omichain.py),
\* under Spec.
\* ---------------------------------------------------------------------

\* The first subdirectory of the listing: every run reaches it before any
\* step that may end the run.
FirstObs == ListDir(tar, logfile).dirs[1]

\* C28: an observation that the driver started to process in an earlier run
\* is classified as already processed by every later run, which does nothing
\* for it, whatever happened to it in the earlier run.  Every run starts or
\* skips the first subdirectory of the listing, so from the second run on it
\* is found with `work`, appended to already_processed and left alone.
C28_StartedThenAlwaysSkipped ==
    (runNo > 1 /\ reached[FirstObs] /= "no") =>
        /\ reached[FirstObs] = "work"
        /\ InList(FirstObs, already_processed)
        /\ invoked[FirstObs] = <<>>
        /\ ~modified[FirstObs]

\* What holds of the code: once os.makedirs has succeeded for an observation
\* `work` is there during every later step of its iteration and is never
\* removed, and every later run skips the observation, whether it ended in
\* processed_observations, in error_observations or in no list.
WorkMadeThenSkipped ==
    /\ (cur \in Obs /\ pc \notin {"loop", "makedirs", "done", "raised"}) => work[cur]
    /\ \A o \in Obs :
          /\ ranIn[o] /= 0 => work[o]
          /\ (ranIn[o] /= 0 /\ ranIn[o] < runNo) =>
                /\ invoked[o] = <<>>
                /\ ~modified[o]
                /\ reached[o] /= "nowork"
                /\ reached[o] = "work" =>
                      InList(o, already_processed) \/ pc = "raised"

\* A later run skipped an observation that an earlier run had recorded in
\* error_observations after an exception of its set-up.
WorkMadeThenSkippedWitness ==
    /\ runNo = 2
    /\ \E o \in Obs :
        /\ ranIn[o] = 1
        /\ outcome[o] = "setup"
        /\ reached[o] = "work"
        /\ InList(o, already_processed)

\* ---------------------------------------------------------------------
\* The working directory of the process (running_omichain.py), under Spec.
\* ---------------------------------------------------------------------


\* run_commands_in_directory is inside its try statement.
InReduction == pc \in {"sasver", "omichain"}

\* create_new_mosaic is inside the try statement of its ommosaic task.
InBuilder == pc = "ommosaic_task"

\* C29: the working directory of the process is, at the start of every
\* iteration of the loop of run and when run is over, the one it was when
\* run started; run_commands_in_directory is in the `work` directory of the
\* observation only between its chdir and its finally clause, and puts the
\* former directory back when it returns True, when sasver or omichain fails,
\* and never leaves it when it raises for a missing descriptor; the mosaic
\* builder is in the `work` directory only between its chdir and its finally
\* clause.
C29_WorkingDirectoryOfRun ==
    /\ pc \in {"loop", "done", "raised"} => cwd = 0
    /\ InReduction => (cwd = cur /\ current_dir = 0)
    /\ InBuilder => (cwd = cur /\ original_dir = 0)
    /\ ~(InReduction \/ InBuilder) => cwd = 0

\* The reduction of an observation ran in its `work` directory and failed,
\* and the process is back in the directory it started in.
C29_Witness ==
    /\ cur \in Obs
    /\ outcome[cur] = "reduction"
    /\ \E i \in DOMAIN invoked[cur] :
          invoked[cur][i].step = "sasver" /\ invoked[cur][i].cwd = cur
    /\ pc = "omatt"
    /\ cwd = 0

\* The mosaic builder ran its task in the `work` directory of the second
\* observation of the run, and the process is back where it started.
BuilderLeftWitness ==
    /\ pc = "combine"
    /\ cwd = 0
    /\ \E o \in Obs : o /= cur /\ "Build_Mosaic" \in StepsOf(o)
    /\ "Build_Mosaic" \in StepsOf(cur)

============================================================================
